---- MODULE Spec2Model ----
(***************************************************************************)
(* Model of the uwuhi DNS message codec: the byte reader and the           *)
(* pointer-compressed domain name decoder (packet/decoder.rs), the         *)
(* section-typed streaming MessageDecoder, and the MessageEncoder            *)
(* (packet/encoder.rs).  Buffers are sequences of bytes 0..255; offsets are *)
(* 0-based as in the source, so the byte at offset p is buf[p + 1].         *)
(***************************************************************************)
EXTENDS Integers, Sequences, FiniteSets, TLC

VARIABLES rd, dec, enc, rt, hdr, adv, res, disc

vars == <<rd, dec, enc, rt, hdr, adv, res, disc>>

(***************************************************************************)
(* Bounds of the model.                                                    *)
(***************************************************************************)
\* Longest buffer handed to read_domain_name on its own.
MaxBuf == 5

(***************************************************************************)
(* Small helpers.                                                          *)
(***************************************************************************)
Max(a, b) == IF a >= b THEN a ELSE b

Range(lo, hi) == {k \in lo..(hi - 1) : TRUE}

\* All sequences over S of length at most n.
SeqsUpTo(S, n) == UNION {[1..k -> S] : k \in 0..n}

(***************************************************************************)
(* name.rs: labels.                                                        *)
(***************************************************************************)
MAX_LEN == 63

try_newMutOffByOne(label) ==
    IF Len(label) = 0 THEN [ok |-> FALSE, err |-> "InvalidEmptyLabel"]
    ELSE IF Len(label) >= MAX_LEN THEN [ok |-> FALSE, err |-> "LabelTooLong"]
    ELSE [ok |-> TRUE, val |-> label]

try_new(label) ==
    IF Len(label) = 0 THEN [ok |-> FALSE, err |-> "InvalidEmptyLabel"]
    ELSE IF Len(label) > MAX_LEN THEN [ok |-> FALSE, err |-> "LabelTooLong"]
    ELSE [ok |-> TRUE, val |-> label]

(***************************************************************************)
(* decoder.rs: Reader.  A reader is [full_buf, pos]; a result is a record  *)
(* with ok, and on success val and the reader position after the read.     *)
(***************************************************************************)
Reader_new(buf) == [full_buf |-> buf, pos |-> 0]

peek_u8(r) ==
    IF r.pos < Len(r.full_buf)
    THEN [ok |-> TRUE, val |-> r.full_buf[r.pos + 1]]
    ELSE [ok |-> FALSE, err |-> "Eof"]

read_slice(r, len) ==
    IF r.pos + len <= Len(r.full_buf)
    THEN [ok |-> TRUE, val |-> SubSeq(r.full_buf, r.pos + 1, r.pos + len),
          pos |-> r.pos + len]
    ELSE [ok |-> FALSE, err |-> "Eof"]

\* read_obj::<T> with size_of::<T>() = size: buf().get(..size), then advance.
read_obj(r, size) ==
    IF size <= Len(r.full_buf) - r.pos
    THEN [ok |-> TRUE, val |-> SubSeq(r.full_buf, r.pos + 1, r.pos + size),
          pos |-> r.pos + size]
    ELSE [ok |-> FALSE, err |-> "Eof"]

read_u8(r) ==
    LET Get(o) == IF o.ok THEN [ok |-> TRUE, val |-> o.val[1], pos |-> o.pos]
                  ELSE o
    IN  Get(read_obj(r, 1))

\* U16::get: big-endian.
read_u16(r) ==
    LET Get(o) ==
            IF o.ok
            THEN [ok |-> TRUE, val |-> o.val[1] * 256 + o.val[2], pos |-> o.pos]
            ELSE o
    IN  Get(read_obj(r, 2))

\* U32::get: big-endian.  The value hi * 65536 + lo is kept as its two
\* 16-bit halves.
read_u32(r) ==
    LET Get(o) ==
            IF o.ok
            THEN [ok |-> TRUE,
                  val |-> [hi |-> o.val[1] * 256 + o.val[2],
                           lo |-> o.val[3] * 256 + o.val[4]],
                  pos |-> o.pos]
            ELSE o
    IN  Get(read_obj(r, 4))

(***************************************************************************)
(* decoder.rs: Reader::read_domain_name, one loop iteration at a time.     *)
(* The loop state st holds the reader (full_buf, pos), the locals          *)
(* copy_pos (copy.pos), min_pos and domain_name, and the outcome result:   *)
(* "running" inside the loop, "Ok", an Error name, or "panic".             *)
(* History fields: start (pos at the call), ptrs (every pointer decoded,   *)
(* with its own offset, its target, the bound it was compared to and       *)
(* whether it was followed), reads (offsets of full_buf that were read),   *)
(* short (a read found fewer bytes than it needed) and steps (iterations). *)
(***************************************************************************)
NameStart(buf, pos) ==
    [full_buf |-> buf, pos |-> pos, copy_pos |-> pos, min_pos |-> pos,
     domain_name |-> <<>>, result |-> "running",
     start |-> pos, ptrs |-> <<>>, reads |-> {}, short |-> FALSE, steps |-> 0]

\* The 14-bit pointer target: read_u16() & 0b0011_1111_1111_1111.
PointerTargetMutLowByte(v) == v % 256

PointerTarget(v) == v % 16384

\* decoder.rs:114: a pointer must point before the current bound.
IsPointerLoopMutSelf(ptr, min_pos) == ptr > min_pos

IsPointerLoop(ptr, min_pos) == ptr >= min_pos

\* The tag of a length byte: length & 0b1100_0000, as 0..3.
LengthTag(length) == length \div 64

NameStepPointer(st, copy) ==
    LET Follow(w, ptr) ==
            IF IsPointerLoop(ptr, st.min_pos)
            THEN [st EXCEPT !.result = "PointerLoop", !.copy_pos = w.pos,
                       !.reads = @ \cup {copy.pos, copy.pos + 1},
                       !.ptrs = Append(@, [at |-> copy.pos, target |-> ptr,
                                           bound |-> st.min_pos,
                                           followed |-> FALSE])]
            ELSE [st EXCEPT !.pos = Max(st.pos, w.pos),
                       !.min_pos = ptr, !.copy_pos = ptr,
                       !.reads = @ \cup {copy.pos, copy.pos + 1},
                       !.ptrs = Append(@, [at |-> copy.pos, target |-> ptr,
                                           bound |-> st.min_pos,
                                           followed |-> TRUE])]
        Pointer(w) ==
            IF ~w.ok
            THEN \* copy.read_u16().unwrap() on a buffer that ends after one byte
                 [st EXCEPT !.result = "panic", !.short = TRUE,
                            !.reads = @ \cup {copy.pos}]
            ELSE Follow(w, PointerTarget(w.val))
    IN  Pointer(read_u16(copy))

NameStepLabel(st, copy, length) ==
    LET after == copy.pos + 1                         \* copy.advance(1)
        Push(s, l) ==
            IF ~l.ok
            THEN [st EXCEPT !.result = l.err, !.copy_pos = s.pos,
                            !.reads = @ \cup Range(copy.pos, s.pos)]
            ELSE [st EXCEPT !.copy_pos = s.pos,
                            !.domain_name = Append(@, l.val),
                            !.reads = @ \cup Range(copy.pos, s.pos)]
        Label(s) ==
            IF ~s.ok
            THEN [st EXCEPT !.result = s.err, !.copy_pos = after,
                            !.reads = @ \cup {copy.pos}, !.short = TRUE]
            ELSE Push(s, try_new(s.val))
    IN  IF length = 0
        THEN \* break; self.pos.set(max(self.pos, copy.pos)); Ok(domain_name)
             [st EXCEPT !.result = "Ok", !.copy_pos = after,
                        !.pos = Max(st.pos, after), !.reads = @ \cup {copy.pos}]
        ELSE Label(read_slice([copy EXCEPT !.pos = after], length))

NameStep(st) ==
    LET Iter(st1, copy, length) ==
            IF ~length.ok
            THEN [st1 EXCEPT !.result = length.err, !.short = TRUE]
            ELSE CASE LengthTag(length.val) = 3 -> NameStepPointer(st1, copy)
                   [] LengthTag(length.val) = 0 ->
                        NameStepLabel(st1, copy, length.val)
                   [] OTHER -> [st1 EXCEPT !.result = "InvalidValue",
                                           !.reads = @ \cup {copy.pos}]
    IN  Iter([st EXCEPT !.steps = @ + 1],
             [full_buf |-> st.full_buf, pos |-> st.copy_pos],
             peek_u8([full_buf |-> st.full_buf, pos |-> st.copy_pos]))

RECURSIVE NameRun(_)
NameRun(st) == IF st.result # "running" THEN st ELSE NameRun(NameStep(st))

\* The whole call on reader r.
read_domain_name(r) == NameRun(NameStart(r.full_buf, r.pos))

(***************************************************************************)
(* Specification SpecName: read_domain_name on every buffer over NameBytes  *)
(* of length at most MaxBuf, started at every offset of the buffer.        *)
(***************************************************************************)
\* Terminator, label length 1, a reserved tag (01), pointer bytes with high
\* target bits 0 and 1.
NameBytes == {0, 1, 64, 192, 193}

NoRd == [result |-> "none"]
NoDec == [section |-> "none"]
NoEnc == [section |-> "none"]
NoRt == [op |-> "none"]
NoHdr == [op |-> "none"]
NoAdv == [state |-> "none"]
NoRes == [state |-> "none"]
NoDisc == [state |-> "none"]

InitName ==
    /\ \E buf \in SeqsUpTo(NameBytes, MaxBuf) :
         \E pos \in 0..Len(buf) : rd = NameStart(buf, pos)
    /\ dec = NoDec
    /\ enc = NoEnc
    /\ rt = NoRt
    /\ hdr = NoHdr
    /\ adv = NoAdv
    /\ res = NoRes
    /\ disc = NoDisc

ReadNameStep ==
    /\ rd.result = "running"
    /\ rd' = NameStep(rd)
    /\ UNCHANGED <<dec, enc, rt, hdr, adv, res, disc>>

NextName == ReadNameStep

SpecName == InitName /\ [][NextName]_vars

(***************************************************************************)
(* C1: read_domain_name terminates: the pointers it follows number at most *)
(* the start offset, the loop runs a bounded number of iterations (so it   *)
(* reads finitely many labels), and while it has no outcome the next       *)
(* iteration can always be taken.                                          *)
(***************************************************************************)
FollowedCount(st) == Cardinality({i \in 1..Len(st.ptrs) : st.ptrs[i].followed})

C1_NameTerminates ==
    /\ FollowedCount(rd) <= rd.start
    /\ rd.steps <= (rd.start + 1) * ((Len(rd.full_buf) \div 2) + 1)
    /\ Len(rd.domain_name) <= rd.steps
    /\ rd.result = "running" => ENABLED ReadNameStep

\* A call that followed two pointers, read a label and returned a name.
C1_Witness ==
    /\ rd.result = "Ok"
    /\ FollowedCount(rd) = 2
    /\ Len(rd.domain_name) >= 1

(***************************************************************************)
(* C2: a pointer is followed exactly when its target is below the current  *)
(* bound (the start offset, then the target followed last); any other      *)
(* pointer ends the call with PointerLoop.  Followed targets lie before    *)
(* the pointer's own bytes and strictly decrease.                          *)
(***************************************************************************)
C2_PointerBound ==
    /\ \A i \in 1..Len(rd.ptrs) :
         LET p == rd.ptrs[i] IN
         /\ p.target = (rd.full_buf[p.at + 1] % 64) * 256 + rd.full_buf[p.at + 2]
         /\ p.bound = (IF i = 1 THEN rd.start ELSE rd.ptrs[i - 1].target)
         /\ p.followed <=> p.target < p.bound
         /\ p.followed => p.target < p.at
         /\ (p.followed /\ i > 1) => p.target < rd.ptrs[i - 1].target
         /\ ~p.followed => (i = Len(rd.ptrs) /\ rd.result = "PointerLoop")
    /\ rd.result = "PointerLoop" =>
         (Len(rd.ptrs) > 0 /\ ~rd.ptrs[Len(rd.ptrs)].followed)
    /\ rd.result = "running" =>
         rd.min_pos = (IF Len(rd.ptrs) = 0 THEN rd.start
                       ELSE rd.ptrs[Len(rd.ptrs)].target)

\* A pointer was followed and a later one (to the bound itself) was refused.
C2_Witness ==
    /\ rd.result = "PointerLoop"
    /\ Len(rd.ptrs) = 2
    /\ rd.ptrs[1].followed
    /\ rd.ptrs[2].target = rd.ptrs[2].bound

(***************************************************************************)
(* C3: read_domain_name returns a name or an Error and never panics, and   *)
(* a buffer that ends in the middle of a name gives Eof.                   *)
(***************************************************************************)
C3_NoPanicEof ==
    rd.result \notin {"running", "none"} =>
        /\ rd.result \in {"Ok", "Eof", "PointerLoop", "InvalidValue",
                          "InvalidEmptyLabel", "LabelTooLong"}
        /\ rd.short => rd.result = "Eof"

(***************************************************************************)
(* decoder.rs: composite reads.  A cursor threads a reader through a       *)
(* sequence of field reads the way the ? operator does: the first failing  *)
(* read fixes result and the later reads are skipped.  vals collects the   *)
(* decoded fields; reads and short are the history of the reads.           *)
(***************************************************************************)
Cur(r) ==
    [full_buf |-> r.full_buf, pos |-> r.pos, result |-> "Ok",
     reads |-> {}, short |-> FALSE, vals |-> <<>>]

CurReader(c) == [full_buf |-> c.full_buf, pos |-> c.pos]

CurTake(c, o) ==
    IF o.ok
    THEN [c EXCEPT !.pos = o.pos, !.reads = @ \cup Range(c.pos, o.pos),
                   !.vals = Append(@, o.val)]
    ELSE [c EXCEPT !.result = o.err, !.short = TRUE]

FieldU8(c) == IF c.result # "Ok" THEN c ELSE CurTake(c, read_u8(CurReader(c)))

FieldU16(c) == IF c.result # "Ok" THEN c ELSE CurTake(c, read_u16(CurReader(c)))

FieldU32(c) == IF c.result # "Ok" THEN c ELSE CurTake(c, read_u32(CurReader(c)))

\* read_array::<LEN>() is read_slice(LEN).
FieldArray(c, len) ==
    IF c.result # "Ok" THEN c ELSE CurTake(c, read_slice(CurReader(c), len))

FieldName(c) ==
    LET Take(n) ==
            [c EXCEPT !.pos = n.pos, !.result = n.result,
                      !.reads = @ \cup n.reads, !.short = n.short,
                      !.vals = IF n.result = "Ok" THEN Append(@, n.domain_name)
                               ELSE @]
    IN  IF c.result # "Ok" THEN c ELSE Take(read_domain_name(CurReader(c)))

\* read_character_string: a length byte, then that many bytes.
read_character_string(c) ==
    LET Bytes(l) ==
            IF l.result # "Ok" THEN l
            ELSE FieldArray([l EXCEPT !.vals = c.vals], l.vals[Len(l.vals)])
    IN  Bytes(FieldU8(c))

QCLASS_MASK == 255

read_question(r) ==
    LET Question(c) ==
            IF c.result # "Ok" THEN c
            ELSE [c EXCEPT !.vals = [qname |-> c.vals[1], qtype |-> c.vals[2],
                                     qclass |-> c.vals[3] % (QCLASS_MASK + 1),
                                     prefer_unicast |-> c.vals[3] \div 32768 = 1]]
    IN  Question(FieldU16(FieldU16(FieldName(Cur(r)))))

\* split_off(len): a reader at the same position whose buffer ends at pos + len.
split_off(r, len) ==
    IF Len(r.full_buf) - r.pos >= len
    THEN [ok |-> TRUE,
          val |-> [full_buf |-> SubSeq(r.full_buf, 1, r.pos + len), pos |-> r.pos],
          pos |-> r.pos + len]
    ELSE [ok |-> FALSE, err |-> "Eof"]

read_resource_record(r) ==
    LET Record(c, rdata) ==
            IF ~rdata.ok THEN [c EXCEPT !.result = rdata.err, !.short = TRUE]
            ELSE [c EXCEPT !.pos = rdata.pos,
                           !.vals = [name |-> c.vals[1], type_ |-> c.vals[2],
                                     class |-> c.vals[3] % 32768,
                                     cache_flush |-> c.vals[3] \div 32768 = 1,
                                     ttl |-> c.vals[4], rdata |-> rdata.val]]
        Fields(c) ==
            IF c.result # "Ok" THEN c
            ELSE Record(c, split_off(CurReader(c), c.vals[5]))
    IN  Fields(FieldU16(FieldU32(FieldU16(FieldU16(FieldName(Cur(r)))))))

(***************************************************************************)
(* packet.rs: Type codes of the nine supported records; records.rs: their  *)
(* decoders, dispatched by Record::from_rr on a clone of the RDATA reader. *)
(***************************************************************************)
Type_A == 1
Type_NS == 2
Type_CNAME == 5
Type_SOA == 6
Type_PTR == 12
Type_MX == 15
Type_TXT == 16
Type_AAAA == 28
Type_SRV == 33

RECURSIVE TXT_decode(_)
TXT_decodeMutLenient(c) ==
    IF c.result # "Ok" THEN [c EXCEPT !.result = "Ok"]
    ELSE IF c.pos >= Len(c.full_buf) THEN c
    ELSE TXT_decode(read_character_string(c))

TXT_decode(c) ==
    IF c.result # "Ok" THEN c
    ELSE IF c.pos >= Len(c.full_buf) THEN c      \* dec.r.buf().is_empty()
    ELSE TXT_decode(read_character_string(c))

\* None for an unsupported type, else the cursor after the variant's decode.
A_decode(c) == FieldArray(c, 4)

AAAA_decode(c) == FieldArray(c, 16)

\* CNAME, NS and PTR: one domain name.
NAME_decode(c) == FieldName(c)

MX_decode(c) == FieldName(FieldU16(c))

SRV_decode(c) == FieldName(FieldU16(FieldU16(FieldU16(c))))

SOA_decode(c) ==
    FieldU32(FieldU32(FieldU32(FieldU32(FieldU32(FieldName(FieldName(c)))))))

\* The cursor after the variant's decode of the RDATA.
Record_decode(type_, c) ==
    CASE type_ = Type_A -> A_decode(c)
      [] type_ = Type_AAAA -> AAAA_decode(c)
      [] type_ \in {Type_CNAME, Type_NS, Type_PTR} -> NAME_decode(c)
      [] type_ = Type_MX -> MX_decode(c)
      [] type_ = Type_TXT -> TXT_decode(c)
      [] type_ = Type_SRV -> SRV_decode(c)
      [] type_ = Type_SOA -> SOA_decode(c)

SupportedTypes ==
    {Type_A, Type_AAAA, Type_CNAME, Type_MX, Type_NS, Type_PTR, Type_TXT,
     Type_SRV, Type_SOA}

\* None for an unsupported type, else Some(result of the decode).
from_rr(rr) ==
    IF rr.type_ \in SupportedTypes
    THEN [some |-> TRUE, c |-> Record_decode(rr.type_, Cur(rr.rdata))]
    ELSE [some |-> FALSE]

(***************************************************************************)
(* decoder.rs: MessageDecoder.  The decoder d holds the code's fields      *)
(* (the four *_remaining counters, the reader position pos, has_errored)   *)
(* and its section, the phantom type parameter: "Question", "Answer",      *)
(* "Authority", "Additional"; "new_failed" when new returned Err;          *)
(* "consumed" after a transition returned Err (the decoder was moved into  *)
(* the call); "panicked" after a panic.                                    *)
(* History fields: header (the counts read by new), entries (the entries   *)
(* decoded so far: section, first offset, offset after), reads (offsets    *)
(* read), last (the last call, what it returned and the section it was     *)
(* made in), err_sec (the index of the section in which a next() call      *)
(* returned Err, 0 when none did), rr (the record yielded by the last      *)
(* next()) and enum (what as_enum returned for rr).                        *)
(***************************************************************************)
Sections == <<"Question", "Answer", "Authority", "Additional">>

SecIdx(sec) ==
    CASE sec = "Question" -> 1 [] sec = "Answer" -> 2
      [] sec = "Authority" -> 3 [] sec = "Additional" -> 4 [] OTHER -> 5

HEADER_SIZE == 12

NoRR == [type_ |-> 0 - 1]
NoEnum == [result |-> "none"]

MessageDecoder_new(buf) ==
    LET h == read_obj(Reader_new(buf), HEADER_SIZE)
        base == [full_buf |-> buf, section |-> "new_failed",
                 q_remaining |-> 0, ans_remaining |-> 0,
                 auth_remaining |-> 0, addl_remaining |-> 0,
                 pos |-> 0, has_errored |-> FALSE,
                 header |-> <<0, 0, 0, 0>>, entries |-> <<>>, reads |-> {},
                 last |-> [op |-> "new", res |-> "Eof", from |-> "none"],
                 err_sec |-> 0,
                 rr |-> NoRR, enum |-> NoEnum]
    IN  IF ~h.ok THEN base
        ELSE LET cnt(i) == h.val[3 + 2 * i] * 256 + h.val[4 + 2 * i] IN
             [base EXCEPT !.section = "Question",
                          !.q_remaining = cnt(1), !.ans_remaining = cnt(2),
                          !.auth_remaining = cnt(3), !.addl_remaining = cnt(4),
                          !.pos = h.pos,
                          !.header = <<cnt(1), cnt(2), cnt(3), cnt(4)>>,
                          !.reads = Range(0, h.pos),
                          !.last = [op |-> "new", res |-> "Ok", from |-> "none"]]

remaining(d) ==
    CASE d.section = "Question" -> d.q_remaining
      [] d.section = "Answer" -> d.ans_remaining
      [] d.section = "Authority" -> d.auth_remaining
      [] d.section = "Additional" -> d.addl_remaining

dec_remainingMutKeep(d) == d

dec_remaining(d) ==
    CASE d.section = "Question" -> [d EXCEPT !.q_remaining = @ - 1]
      [] d.section = "Answer" -> [d EXCEPT !.ans_remaining = @ - 1]
      [] d.section = "Authority" -> [d EXCEPT !.auth_remaining = @ - 1]
      [] d.section = "Additional" -> [d EXCEPT !.addl_remaining = @ - 1]

\* The guard shared by next and next_rr: no entry is read.
next_is_none(d) == d.has_errored \/ remaining(d) = 0

\* next() of the Question section and next_rr() of the others.  res is
\* "None", "Ok" (Some(Ok(entry))), an Error name (Some(Err(e))) or "panic".
next_rr(d) ==
    LET Entry(e, d1) ==
            IF e.result = "panic"
            THEN [d |-> [d1 EXCEPT !.section = "panicked"], res |-> "panic",
                  val |-> NoRR, q |-> NoRR]
            ELSE IF e.result # "Ok"
            THEN [d |-> [d1 EXCEPT !.has_errored = TRUE], res |-> e.result,
                  val |-> NoRR, q |-> NoRR]
            ELSE [d |-> [dec_remaining(d1) EXCEPT
                           !.entries = Append(@, [sec |-> d.section,
                                                  start |-> d.pos,
                                                  end |-> e.pos])],
                  res |-> "Ok",
                  val |-> IF d.section = "Question" THEN NoRR ELSE e.vals,
                  q |-> IF d.section = "Question" THEN e.vals ELSE NoRR]
        Read(e) == Entry(e, [d EXCEPT !.pos = e.pos, !.reads = @ \cup e.reads])
    IN  IF next_is_none(d) THEN [d |-> d, res |-> "None", val |-> NoRR,
                                     q |-> NoRR]
        ELSE IF d.section = "Question"
        THEN Read(read_question([full_buf |-> d.full_buf, pos |-> d.pos]))
        ELSE Read(read_resource_record([full_buf |-> d.full_buf, pos |-> d.pos]))

\* while let Some(res) = self.next() { res?; }
RECURSIVE Drain(_)
DrainMutSwallow(d) ==
    LET Loop(n) ==
            IF n.res = "None" THEN [d |-> n.d, res |-> "Ok"]
            ELSE IF n.res = "Ok" THEN Drain(n.d)
            ELSE [d |-> n.d, res |-> IF n.res = "panic" THEN n.res ELSE "Ok"]
    IN  Loop(next_rr(d))

Drain(d) ==
    LET Loop(n) ==
            IF n.res = "None" THEN [d |-> n.d, res |-> "Ok"]
            ELSE IF n.res = "Ok" THEN Drain(n.d)
            ELSE [d |-> n.d, res |-> n.res]
    IN  Loop(next_rr(d))

change_sectionMutClear(d, N) == [d EXCEPT !.section = N, !.has_errored = FALSE]

change_section(d, N) == [d EXCEPT !.section = N]

\* answers(), authority(), additional(): drain the current section, change
\* to the next one, and go on (self.answers()?.authority() ...) to target.
RECURSIVE Transition(_, _)
Transition(d, target) ==
    LET Change(x) ==
            IF x.res # "Ok" THEN x
            ELSE Transition(change_section(x.d, Sections[SecIdx(d.section) + 1]),
                            target)
    IN  IF d.section = target THEN [d |-> d, res |-> "Ok"] ELSE Change(Drain(d))

\* ResourceRecord::as_enum.
as_enum(rr) ==
    LET Result(e) ==
            IF ~e.some THEN [result |-> "None", reads |-> {}, short |-> FALSE]
            ELSE [result |-> e.c.result, reads |-> e.c.reads,
                  short |-> e.c.short]
    IN  Result(from_rr(rr))

(***************************************************************************)
(* Specification SpecDec: a MessageDecoder on messages made of a header    *)
(* with counts up to MaxCount and a body of up to MaxEntries pieces, used  *)
(* through next, as_enum and the section transitions in any order.         *)
(***************************************************************************)
MaxEntries == 2
MaxCount == 2

Hdr(qd, an, ns, ar) == <<0, 0, 0, 0, 0, qd, 0, an, 0, ns, 0, ar>>

\* A question for the root name, type A, class IN.
Q_root == <<0, 0, 1, 0, 1>>
\* root A IN ttl 120, RDLENGTH 4.
RR_A == <<0, 0, 1, 0, 1, 0, 0, 0, 120, 0, 4, 1, 2, 3, 4>>
\* A PTR record whose owner name and RDATA are both a pointer to offset 12.
RR_PTR == <<192, 12, 0, 12, 0, 1, 0, 0, 0, 120, 0, 2, 192, 12>>
\* A TXT record whose character-string announces 5 bytes in a 2-byte RDATA.
RR_TXT_over == <<0, 0, 16, 0, 1, 0, 0, 0, 120, 0, 2, 5, 120>>
\* A PTR record whose 1-byte RDATA is the first byte of a pointer.
RR_PTR_half == <<0, 0, 12, 0, 1, 0, 0, 0, 120, 0, 1, 192>>
\* A length byte with the reserved tag 01.
BAD_tag == <<64>>
\* The first byte of a pointer.
HALF_ptr == <<192>>

Pieces == {Q_root, RR_A, RR_PTR, RR_TXT_over, RR_PTR_half, BAD_tag, HALF_ptr}

RECURSIVE Concat(_)
Concat(ss) == IF ss = <<>> THEN <<>> ELSE Head(ss) \o Concat(Tail(ss))

DecInputs ==
    {Hdr(qd, an, ns, ar) \o Concat(body) :
        qd \in 0..MaxCount, an \in 0..MaxCount, ns \in 0..1, ar \in 0..1,
        body \in SeqsUpTo(Pieces, MaxEntries)}

InitDec ==
    /\ rd = NoRd
    /\ enc = NoEnc
    /\ rt = NoRt
    /\ hdr = NoHdr
    /\ adv = NoAdv
    /\ res = NoRes
    /\ disc = NoDisc
    /\ \E buf \in DecInputs \cup {<<0, 0, 0>>} : dec = MessageDecoder_new(buf)

Live(d) == SecIdx(d.section) <= 4

\* A call of next() by the user of the decoder.
DecNext ==
    /\ Live(dec)
    /\ LET Returned(n) ==
               [n.d EXCEPT !.last = [op |-> "next", res |-> n.res,
                                     from |-> dec.section],
                           !.err_sec =
                               IF n.res \in {"None", "Ok", "panic"} THEN @
                               ELSE SecIdx(dec.section),
                           !.rr = n.val, !.enum = NoEnum]
       IN  dec' = Returned(next_rr(dec))
    /\ UNCHANGED <<rd, enc, rt, hdr, adv, res, disc>>

DecTransition(target) ==
    /\ Live(dec)
    /\ SecIdx(dec.section) < SecIdx(target)
    /\ LET Returned(x) ==
               [x.d EXCEPT !.last = [op |-> target, res |-> x.res,
                                     from |-> dec.section],
                           !.section = IF x.res = "Ok" THEN @
                                       ELSE IF x.res = "panic" THEN "panicked"
                                       ELSE "consumed",
                           !.rr = NoRR, !.enum = NoEnum]
       IN  dec' = Returned(Transition(dec, target))
    /\ UNCHANGED <<rd, enc, rt, hdr, adv, res, disc>>

DecAnswers == DecTransition("Answer")

DecAuthority == DecTransition("Authority")

DecAdditional == DecTransition("Additional")

\* as_enum on the record the last next() yielded.
DecAsEnum ==
    /\ Live(dec)
    /\ dec.rr # NoRR
    /\ dec.enum = NoEnum
    /\ LET Returned(e) ==
               [dec EXCEPT !.enum = e,
                           !.last = [op |-> "as_enum", res |-> e.result,
                                     from |-> dec.section]]
       IN  dec' = Returned(as_enum(dec.rr))
    /\ UNCHANGED <<rd, enc, rt, hdr, adv, res, disc>>

NextDec == DecNext \/ DecAnswers \/ DecAuthority \/ DecAdditional \/ DecAsEnum

SpecDec == InitDec /\ [][NextDec]_vars

(***************************************************************************)
(* Every offset the decoder reads lies inside the message, and as_enum     *)
(* reads only below the end of the record's RDATA.                         *)
(***************************************************************************)
DecReadsInBounds ==
    /\ dec.section # "none" => dec.reads \subseteq 0..(Len(dec.full_buf) - 1)
    /\ (dec.section # "none" /\ dec.enum # NoEnum) =>
          dec.enum.reads \subseteq 0..(Len(dec.rr.rdata.full_buf) - 1)

(***************************************************************************)
(* C4: decoding reads only offsets inside the message, decoding a record's *)
(* data reads only offsets below the end of its RDATA, and a field that    *)
(* would cross the end of the RDATA gives Eof.                             *)
(***************************************************************************)
C4_RdataBounded ==
    /\ DecReadsInBounds
    /\ (dec.section # "none" /\ dec.enum # NoEnum /\ dec.enum.short) =>
          dec.enum.result = "Eof"

(***************************************************************************)
(* C5: the section only moves forward; the entries decoded are in wire     *)
(* order, never more of a section than its header count, and exactly the   *)
(* header count of every section passed or exhausted without an error;     *)
(* once a section has yielded its count, next() returns None.              *)
(***************************************************************************)
Taken(d, i) == Cardinality({k \in 1..Len(d.entries) : d.entries[k].sec = Sections[i]})

WireOrder(d) ==
    \A k \in 1..Len(d.entries) :
        /\ d.entries[k].start = (IF k = 1 THEN HEADER_SIZE ELSE d.entries[k - 1].end)
        /\ d.entries[k].start < d.entries[k].end
        /\ k > 1 => SecIdx(d.entries[k - 1].sec) <= SecIdx(d.entries[k].sec)

C5_State ==
    Live(dec) =>
        /\ WireOrder(dec)
        /\ \A i \in 1..4 : Taken(dec, i) <= dec.header[i]
        /\ ~dec.has_errored =>
             \A i \in 1..4 :
                 /\ i < SecIdx(dec.section) => Taken(dec, i) = dec.header[i]
                 /\ i > SecIdx(dec.section) => Taken(dec, i) = 0
        /\ (~dec.has_errored /\ dec.last.op = "next" /\ dec.last.res = "None") =>
             Taken(dec, SecIdx(dec.section)) = dec.header[SecIdx(dec.section)]

C5_Step ==
    /\ SecIdx(dec.section) <= 5 => SecIdx(dec'.section) >= SecIdx(dec.section)
    /\ (Live(dec) /\ dec'.last.op = "next"
          /\ Taken(dec, SecIdx(dec.section)) = dec.header[SecIdx(dec.section)]) =>
          dec'.last.res = "None"

C5_SectionsForward == [](dec.section # "none" => C5_State) /\ [][dec.section # "none" => C5_Step]_vars

\* Two questions and an answer were yielded, and the decoder went on to the
\* Additional section.
C5_Witness ==
    /\ dec.section = "Additional"
    /\ ~dec.has_errored
    /\ Taken(dec, 1) = 2
    /\ Taken(dec, 2) = 1

(***************************************************************************)
(* C6: once a next() call has returned Err, every later next() call        *)
(* returns None, in the same and in every later section, and the reader    *)
(* position stays where it is.                                             *)
(***************************************************************************)
C6_Step ==
    (dec.section # "none" /\ dec.err_sec # 0) =>
        /\ dec'.pos = dec.pos
        /\ dec'.err_sec = dec.err_sec
        /\ dec'.last.op = "next" => dec'.last.res = "None"
        /\ dec'.last.op \in {"Answer", "Authority", "Additional"} =>
              dec'.last.res = "Ok"

C6_StickyError == [][C6_Step]_vars

\* A next() of the Question section returned Err, the decoder was moved on,
\* and a next() of a later section with entries left returned None.
C6_Witness ==
    /\ dec.section = "Answer"
    /\ dec.err_sec = 1
    /\ dec.ans_remaining > 0
    /\ dec.last.op = "next"
    /\ dec.last.res = "None"

(***************************************************************************)
(* C7 as stated: a transition returns the decode error, and no decoder,    *)
(* whenever an entry of the current section or of a section in between     *)
(* produced a decode error.                                                *)
(***************************************************************************)
IsTransition(op) == op \in {"Answer", "Authority", "Additional"}

C7_TransitionPropagates ==
    (dec.section # "none" /\ IsTransition(dec.last.op) /\ dec.last.res = "Ok") =>
        ~(dec.err_sec >= SecIdx(dec.last.from) /\ dec.err_sec < SecIdx(dec.last.op))

(***************************************************************************)
(* C7 amended: a transition returns the decode error, and no decoder,      *)
(* exactly when an entry that the transition itself drains fails to        *)
(* decode: without an earlier error, Ok means every announced entry of the *)
(* sections passed was decoded.  When a next() call had already returned   *)
(* the error, the transition returns a decoder for the later section, on   *)
(* which has_errored is set.                                               *)
(***************************************************************************)
C7_TransitionError ==
    (dec.section # "none" /\ IsTransition(dec.last.op)) =>
        /\ dec.last.res \notin {"Ok", "panic"} =>
              (dec.section = "consumed" /\ dec.err_sec = 0 /\ dec.has_errored)
        /\ dec.last.res = "Ok" => dec.section = dec.last.op
        /\ (dec.last.res = "Ok" /\ dec.err_sec = 0) =>
              /\ ~dec.has_errored
              /\ \A i \in SecIdx(dec.last.from)..(SecIdx(dec.last.op) - 1) :
                     Taken(dec, i) = dec.header[i]
        /\ dec.err_sec # 0 => (dec.last.res = "Ok" /\ dec.has_errored)

\* A transition from the Question section over a failing answer returned
\* the error.
C7_Witness ==
    /\ dec.section = "consumed"
    /\ dec.last.from = "Question"
    /\ dec.last.op \in {"Authority", "Additional"}
    /\ Taken(dec, 1) = dec.header[1]
    /\ dec.header[1] > 0
    /\ dec.last.res = "InvalidValue"

(***************************************************************************)
(* Writer (encoder.rs): the caller's buffer, the cursor pos and the flag   *)
(* trunc.  write_slice copies what fits and sets trunc when data is cut.   *)
(* panic is set when an assertion of the Writer fails; nothing is written  *)
(* after that.                                                             *)
(***************************************************************************)
Writer_new(buf) == [buf |-> buf, pos |-> 0, trunc |-> FALSE, panic |-> FALSE]

write_slice(w, data) ==
    LET Copy(room, n) ==
            [w EXCEPT !.buf = SubSeq(w.buf, 1, w.pos) \o SubSeq(data, 1, n)
                                \o SubSeq(w.buf, w.pos + n + 1, Len(w.buf)),
                      !.pos = w.pos + n,
                      !.trunc = @ \/ Len(data) > room]
        Room(room) == Copy(room, IF Len(data) > room THEN room ELSE Len(data))
    IN  IF w.panic THEN w ELSE Room(Len(w.buf) - w.pos)

write_u8(w, b) == write_slice(w, <<b>>)

write_u16(w, v) == write_slice(w, <<v \div 256, v % 256>>)

\* A u32 is held as its two 16-bit halves, as read_u32 yields it.
write_u32(w, v) ==
    write_slice(w, <<v.hi \div 256, v.hi % 256, v.lo \div 256, v.lo % 256>>)

\* A DomainName is the sequence of its labels, each a sequence of bytes.
RECURSIVE write_labels(_, _)
write_labels(w, labels) ==
    LET Rest(w1) == write_labels(w1, Tail(labels))
        Label(l) == Rest(write_slice(write_u8(w, Len(l) % 256), l))
    IN  IF w.panic \/ labels = <<>> THEN w ELSE Label(Head(labels))

write_domain_nameMutNoRoot(w, name) == write_labels(w, name)

write_domain_name(w, name) ==
    LET Root(w1) == write_u8(w1, 0) IN Root(write_labels(w, name))

MAX_CHARACTER_STRING == 255

\* assert!(string.len() <= 255) comes first.
write_character_string(w, string) ==
    LET Bytes(w1) == write_slice(w1, string)
    IN  IF Len(string) > MAX_CHARACTER_STRING THEN [w EXCEPT !.panic = TRUE]
        ELSE Bytes(write_u8(w, Len(string)))

(***************************************************************************)
(* Header access through Writer::modify_header: the slice buf[..12] is     *)
(* taken first, which panics on a buffer shorter than the header.          *)
(***************************************************************************)
header_fits(w) == Len(w.buf) >= HEADER_SIZE

TC_BIT == 2

\* Header::set_truncated: flag TC (mask 0x0200) is bit TC_BIT of the high
\* byte of the flags word, the third byte of the message.
set_truncated(buf, trunc) ==
    [buf EXCEPT ![3] = (@ - ((@ \div TC_BIT) % 2) * TC_BIT)
                         + (IF trunc THEN TC_BIT ELSE 0)]

is_truncated(buf) == (buf[3] \div TC_BIT) % 2 = 1

\* Header::set_qdcount .. set_arcount: big-endian 16-bit counts.
set_counts(buf, qd, an, ns, ar) ==
    [i \in 1..Len(buf) |->
        CASE i = 5 -> qd \div 256 [] i = 6 -> qd % 256
          [] i = 7 -> an \div 256 [] i = 8 -> an % 256
          [] i = 9 -> ns \div 256 [] i = 10 -> ns % 256
          [] i = 11 -> ar \div 256 [] i = 12 -> ar % 256
          [] OTHER -> buf[i]]

\* set_header: *h = header.
put_header(buf, header) ==
    [i \in 1..Len(buf) |-> IF i <= HEADER_SIZE THEN header[i] ELSE buf[i]]

(***************************************************************************)
(* Records as the encoder takes them, and their RDATA encoding.            *)
(***************************************************************************)
RECURSIVE TXT_encode(_, _)
TXT_encode(w, entries) ==
    IF entries = <<>> THEN w
    ELSE TXT_encode(write_character_string(w, Head(entries)), Tail(entries))

MX_encode(w, rdata) ==
    LET Name(w1) == write_domain_name(w1, rdata.exchange)
    IN  Name(write_u16(w, rdata.preference))

SRV_encode(w, rdata) ==
    LET Name(w1) == write_domain_name(w1, rdata.target)
        Port(w1) == Name(write_u16(w1, rdata.port))
        Weight(w1) == Port(write_u16(w1, rdata.weight))
    IN  Weight(write_u16(w, rdata.priority))

SOA_encode(w, rdata) ==
    LET Minimum(w1) == write_u32(w1, rdata.minimum_ttl)
        Expire(w1) == Minimum(write_u32(w1, rdata.expire))
        Retry(w1) == Expire(write_u32(w1, rdata.retry))
        Refresh(w1) == Retry(write_u32(w1, rdata.refresh))
        Serial(w1) == Refresh(write_u32(w1, rdata.serial))
        Rname(w1) == Serial(write_domain_name(w1, rdata.rname))
    IN  Rname(write_domain_name(w, rdata.mname))

Record_encode(w, rdata) ==
    CASE rdata.type_ = Type_A -> write_slice(w, rdata.addr)
      [] rdata.type_ = Type_AAAA -> write_slice(w, rdata.addr)
      [] rdata.type_ = Type_CNAME -> write_domain_name(w, rdata.name)
      [] rdata.type_ = Type_NS -> write_domain_name(w, rdata.nsdname)
      [] rdata.type_ = Type_PTR -> write_domain_name(w, rdata.ptrdname)
      [] rdata.type_ = Type_MX -> MX_encode(w, rdata)
      [] rdata.type_ = Type_TXT -> TXT_encode(w, rdata.entries)
      [] rdata.type_ = Type_SRV -> SRV_encode(w, rdata)
      [] rdata.type_ = Type_SOA -> SOA_encode(w, rdata)

\* Question and ResourceRecord bytes through the Writer.
write_question(w, question) ==
    LET Class(w1) == write_u16(w1, question.class)
        Ty(w1) == Class(write_u16(w1, question.ty))
    IN  Ty(write_domain_name(w, question.name))

write_rr(w, rr) ==
    LET Patch(w1, lenpos, before_rdata) ==
            \* w.pos = lenpos; w.write_u16(rdata_len); w.pos = finished_pos
            [write_u16([w1 EXCEPT !.pos = lenpos], w1.pos - before_rdata)
                EXCEPT !.pos = w1.pos]
        Rdata(w1, lenpos) == Patch(Record_encode(w1, rr.rdata), lenpos, w1.pos)
        Dummy(w1) == Rdata(write_u16(w1, 0), w1.pos)
        Ttl(w1) == Dummy(write_u32(w1, rr.ttl))
        Class(w1) == Ttl(write_u16(w1, rr.class))
        Ty(w1) == Class(write_u16(w1, rr.rdata.type_))
    IN  Ty(write_domain_name(w, rr.name))

(***************************************************************************)
(* MessageEncoder: the Writer, the four counters of EncoderInner and the   *)
(* section of the type.  History fields: result and ret (what finish       *)
(* returned), calls (question / add_* calls made per section), need (the   *)
(* wire size of the header and of every entry passed in), whole (entries   *)
(* per section that lie completely in the buffer), headers (set_header     *)
(* calls made).                                                            *)
(***************************************************************************)
MessageEncoder_new(buf) ==
    LET Enc(w) ==
            [buf |-> w.buf, pos |-> w.pos, trunc |-> w.trunc,
             qdcount |-> 0, ancount |-> 0, nscount |-> 0, arcount |-> 0,
             section |-> "Question", result |-> "none", ret |-> 0,
             calls |-> <<0, 0, 0, 0>>, need |-> HEADER_SIZE,
             whole |-> <<0, 0, 0, 0>>, headers |-> 0]
    IN  Enc(write_slice(Writer_new(buf), [i \in 1..HEADER_SIZE |-> 0]))

EncWriter(e) ==
    [buf |-> e.buf, pos |-> e.pos, trunc |-> e.trunc, panic |-> FALSE]

EncPanic(e) == [e EXCEPT !.section = "panicked", !.result = "panic"]

WithWriter(e, w) ==
    IF w.panic THEN EncPanic(e)
    ELSE [e EXCEPT !.buf = w.buf, !.pos = w.pos, !.trunc = w.trunc]

\* impl Drop for EncoderInner.
EncoderInner_dropMutKeepCounts(e) ==
    IF ~header_fits(e) THEN EncPanic(e)
    ELSE [e EXCEPT !.buf = set_truncated(e.buf, e.trunc), !.section = "dropped"]

EncoderInner_drop(e) ==
    IF ~header_fits(e) THEN EncPanic(e)
    ELSE [e EXCEPT !.buf = set_truncated(set_counts(e.buf, e.qdcount, e.ancount,
                                                    e.nscount, e.arcount),
                                         e.trunc),
                   !.section = "dropped"]

set_header(e, header) ==
    IF ~header_fits(e) THEN EncPanic(e)
    ELSE [e EXCEPT !.buf = put_header(e.buf, header), !.headers = @ + 1]

\* finish(self): the result is computed, then self is dropped.
finish(e) ==
    LET Ret(d) ==
            IF d.result = "panic" THEN d
            ELSE [d EXCEPT !.result = IF e.trunc THEN "Truncated" ELSE "Ok",
                           !.ret = e.pos]
    IN  Ret(EncoderInner_drop(e))

\* Wire sizes of what the caller passes in.
RECURSIVE NameWireLen(_)
NameWireLen(name) ==
    IF name = <<>> THEN 1 ELSE 1 + Len(Head(name)) + NameWireLen(Tail(name))

RECURSIVE TxtWireLen(_)
TxtWireLen(entries) ==
    IF entries = <<>> THEN 0 ELSE 1 + Len(Head(entries)) + TxtWireLen(Tail(entries))

RdataWireLen(rdata) ==
    CASE rdata.type_ \in {Type_A, Type_AAAA} -> Len(rdata.addr)
      [] rdata.type_ = Type_CNAME -> NameWireLen(rdata.name)
      [] rdata.type_ = Type_NS -> NameWireLen(rdata.nsdname)
      [] rdata.type_ = Type_PTR -> NameWireLen(rdata.ptrdname)
      [] rdata.type_ = Type_MX -> 2 + NameWireLen(rdata.exchange)
      [] rdata.type_ = Type_TXT -> TxtWireLen(rdata.entries)
      [] rdata.type_ = Type_SRV -> 6 + NameWireLen(rdata.target)
      [] rdata.type_ = Type_SOA ->
            NameWireLen(rdata.mname) + NameWireLen(rdata.rname) + 20

QuestionWireLen(q) == NameWireLen(q.name) + 4

RRWireLen(rr) == NameWireLen(rr.name) + 10 + RdataWireLen(rr.rdata)

\* The history of one question / add_* call of section i with size bytes.
Called(e, i, size) ==
    [e EXCEPT !.calls[i] = @ + 1, !.need = @ + size,
              !.whole[i] = IF e.need + size <= Len(e.buf) THEN @ + 1 ELSE @]

question(e, q) ==
    LET Count(e1) == [e1 EXCEPT !.qdcount = @ + 1]
    IN  Called(Count(WithWriter(e, write_question(EncWriter(e), q))), 1,
               QuestionWireLen(q))

add_answer(e, rr) ==
    LET Count(e1) == [e1 EXCEPT !.ancount = @ + 1]
    IN  Called(Count(WithWriter(e, write_rr(EncWriter(e), rr))), 2, RRWireLen(rr))

add_authority(e, rr) ==
    LET Count(e1) == [e1 EXCEPT !.nscount = @ + 1]
    IN  Called(Count(WithWriter(e, write_rr(EncWriter(e), rr))), 3, RRWireLen(rr))

add_additional(e, rr) ==
    LET Count(e1) == [e1 EXCEPT !.arcount = @ + 1]
    IN  Called(Count(WithWriter(e, write_rr(EncWriter(e), rr))), 4, RRWireLen(rr))

(***************************************************************************)
(* Specification SpecEnc: a MessageEncoder on a buffer of                  *)
(* HEADER_SIZE - 1 .. MaxEncBuf bytes, given up to MaxAdds entries and up  *)
(* to MaxSetHeader headers through its API, then finished or dropped.      *)
(***************************************************************************)
MaxEncBuf == 34
MaxAdds == 2
MaxSetHeader == 1

QType_ALL == 255
QClass_IN == 1
Class_IN == 1

ROOT == <<>>
Name_a == <<<<97>>>>

EncQuestions ==
    {[name |-> n, ty |-> QType_ALL, class |-> QClass_IN] : n \in {ROOT, Name_a}}

EncRecords ==
    {[type_ |-> Type_A, addr |-> <<1, 2, 3, 4>>],
     [type_ |-> Type_PTR, ptrdname |-> Name_a],
     [type_ |-> Type_TXT, entries |-> <<<<120>>>>]}

EncRRs == {[name |-> ROOT, class |-> Class_IN, ttl |-> [hi |-> 0, lo |-> 120],
            rdata |-> r] :
             r \in EncRecords}

\* A header with every bit set (TC = 1, counts 65535) and a response header
\* with counts 0.
EncHeaders == {[i \in 1..HEADER_SIZE |-> 255],
               [i \in 1..HEADER_SIZE |-> IF i = 3 THEN 128 ELSE 0]}

InitEnc ==
    /\ rd = NoRd
    /\ dec = NoDec
    /\ rt = NoRt
    /\ hdr = NoHdr
    /\ adv = NoAdv
    /\ res = NoRes
    /\ disc = NoDisc
    /\ \E len \in (HEADER_SIZE - 1)..MaxEncBuf :
          enc = MessageEncoder_new([i \in 1..len |-> 0])

EncAdds(e) == e.calls[1] + e.calls[2] + e.calls[3] + e.calls[4]

EncSetHeader ==
    /\ enc.section \in {"Question", "Answer", "Authority", "Additional"}
    /\ enc.headers < MaxSetHeader
    /\ \E header \in EncHeaders : enc' = set_header(enc, header)
    /\ UNCHANGED <<rd, dec, rt, hdr, adv, res, disc>>

EncQuestion ==
    /\ enc.section = "Question"
    /\ EncAdds(enc) < MaxAdds
    /\ \E q \in EncQuestions : enc' = question(enc, q)
    /\ UNCHANGED <<rd, dec, rt, hdr, adv, res, disc>>

EncAnswers ==
    /\ enc.section = "Question"
    /\ enc' = [enc EXCEPT !.section = "Answer"]
    /\ UNCHANGED <<rd, dec, rt, hdr, adv, res, disc>>

EncAddAnswer ==
    /\ enc.section = "Answer"
    /\ EncAdds(enc) < MaxAdds
    /\ \E rr \in EncRRs : enc' = add_answer(enc, rr)
    /\ UNCHANGED <<rd, dec, rt, hdr, adv, res, disc>>

EncAuthority ==
    /\ enc.section = "Answer"
    /\ enc' = [enc EXCEPT !.section = "Authority"]
    /\ UNCHANGED <<rd, dec, rt, hdr, adv, res, disc>>

EncAddAuthority ==
    /\ enc.section = "Authority"
    /\ EncAdds(enc) < MaxAdds
    /\ \E rr \in EncRRs : enc' = add_authority(enc, rr)
    /\ UNCHANGED <<rd, dec, rt, hdr, adv, res, disc>>

EncAdditional ==
    /\ enc.section = "Authority"
    /\ enc' = [enc EXCEPT !.section = "Additional"]
    /\ UNCHANGED <<rd, dec, rt, hdr, adv, res, disc>>

EncAddAdditional ==
    /\ enc.section = "Additional"
    /\ EncAdds(enc) < MaxAdds
    /\ \E rr \in EncRRs : enc' = add_additional(enc, rr)
    /\ UNCHANGED <<rd, dec, rt, hdr, adv, res, disc>>

EncFinish ==
    /\ enc.section \in {"Question", "Answer", "Authority", "Additional"}
    /\ enc' = finish(enc)
    /\ UNCHANGED <<rd, dec, rt, hdr, adv, res, disc>>

EncDrop ==
    /\ enc.section \in {"Question", "Answer", "Authority", "Additional"}
    /\ enc' = EncoderInner_drop(enc)
    /\ UNCHANGED <<rd, dec, rt, hdr, adv, res, disc>>

NextEnc ==
    \/ EncSetHeader
    \/ EncQuestion
    \/ EncAnswers
    \/ EncAddAnswer
    \/ EncAuthority
    \/ EncAddAuthority
    \/ EncAdditional
    \/ EncAddAdditional
    \/ EncFinish
    \/ EncDrop

SpecEnc == InitEnc /\ [][NextEnc]_vars

\* The four counts of the header in buf, as MessageDecoder::new reads them.
HeaderCounts(buf) == MessageDecoder_new(buf).header

EncDone == enc.section = "dropped"

(***************************************************************************)
(* C8: when everything passed in fits in the buffer, the four header       *)
(* counts in the buffer after the encoder is finished or dropped equal the *)
(* numbers of question, add_answer, add_authority and add_additional calls *)
(* made, whatever header set_header installed.                             *)
(***************************************************************************)
C8_CountsMatchCalls ==
    (EncDone /\ enc.need <= Len(enc.buf)) => HeaderCounts(enc.buf) = enc.calls

\* A question and an answer fit, and the header with every count 65535 was
\* installed before the encoder was finished.
C8_Witness ==
    /\ EncDone
    /\ enc.result = "Ok"
    /\ enc.calls = <<1, 1, 0, 0>>
    /\ enc.headers = 1
    /\ enc.buf[1] = 255
    /\ HeaderCounts(enc.buf) = <<1, 1, 0, 0>>

(***************************************************************************)
(* What holds of a finished encoder on a buffer that holds a header: trunc *)
(* is set exactly when the bytes passed in exceed the buffer, TC is trunc, *)
(* finish returns Err(Truncated) or Ok(bytes written) accordingly, and the *)
(* counts are the numbers of calls.                                        *)
(***************************************************************************)
EncFinished ==
    (EncDone /\ enc.result # "none") =>
        /\ enc.trunc <=> enc.need > Len(enc.buf)
        /\ is_truncated(enc.buf) <=> enc.trunc
        /\ enc.result = (IF enc.trunc THEN "Truncated" ELSE "Ok")
        /\ ~enc.trunc => enc.ret = enc.need
        /\ HeaderCounts(enc.buf) = enc.calls

(***************************************************************************)
(* C9: when the buffer is too small for the entries added, after finish    *)
(* the header has TC = 1, each count is the number of entries of that      *)
(* section written into the buffer, and finish returned Err(Truncated);    *)
(* when everything fits, TC = 0 and finish returned Ok(bytes written).     *)
(***************************************************************************)
C9_TruncationReported ==
    (EncDone /\ enc.result # "none") =>
        IF enc.need > Len(enc.buf)
        THEN /\ is_truncated(enc.buf)
             /\ HeaderCounts(enc.buf) = enc.whole
             /\ enc.result = "Truncated"
        ELSE /\ ~is_truncated(enc.buf)
             /\ enc.result = "Ok"
             /\ enc.ret = enc.need

(***************************************************************************)
(* C10: the bytes from offset 0 up to the cursor of a finished encoder,    *)
(* truncated or not, decode through all four sections without an error.    *)
(***************************************************************************)
DecodeAll(buf) ==
    LET Rest(t) == IF t.res # "Ok" THEN t.res ELSE Drain(t.d).res
        Start(d) ==
            IF d.section = "new_failed" THEN "Eof"
            ELSE Rest(Transition(d, "Additional"))
    IN  Start(MessageDecoder_new(buf))

C10_TruncatedDecodes ==
    EncDone => DecodeAll(SubSeq(enc.buf, 1, enc.pos)) = "Ok"

\* Without truncation the bytes do decode.
EncFitsDecodes ==
    (EncDone /\ ~enc.trunc) => DecodeAll(SubSeq(enc.buf, 1, enc.pos)) = "Ok"

(***************************************************************************)
(* Specification SpecRT: the round trips of records.rs tests::roundtrip    *)
(* and of the name codec.  A record (or a name) is encoded with a Writer   *)
(* on a zeroed buffer of RtBufLen bytes, and the bytes written, buf[..pos],*)
(* are decoded with a Reader as the same type.                             *)
(* A question is written with write_question and read with read_question. *)
(* rt holds op ("record", "name", "question"), the input, the stage ("given",*)
(* "encoded", "decoded", "panicked"), the bytes written, and the result,   *)
(* fields and reader position of the decode.                               *)
(***************************************************************************)
RtBufLen == 2 * (MAX_CHARACTER_STRING + 1)

MaxLabels == 2

\* Labels: one byte, a zero byte inside, the maximum length, and bytes that
\* would be a pointer if they were read as a length.
RtLabels == {<<97>>, <<98, 0>>, [i \in 1..MAX_LEN |-> 120], <<192, 12>>}

Name_ab == <<<<97>>, <<98, 0>>>>
Name_long == <<[i \in 1..MAX_LEN |-> 120], <<192, 12>>>>

RtNames == SeqsUpTo(RtLabels, MaxLabels)

RtU16 == {0, 255, 256, 65535}

RtU32 == {[hi |-> 0, lo |-> 0], [hi |-> 15, lo |-> 16959],
          [hi |-> 65535, lo |-> 65535]}

RtStrings ==
    {<<>>, <<97, 98, 99>>, [i \in 1..MAX_CHARACTER_STRING |-> 0],
     [i \in 1..(MAX_CHARACTER_STRING + 1) |-> 0]}

RtRecords ==
    {[type_ |-> Type_A, addr |-> a] : a \in {<<9, 4, 78, 210>>, <<192, 0, 2, 1>>}}
    \cup {[type_ |-> Type_AAAA, addr |-> [i \in 1..16 |-> IF i = 16 THEN b ELSE 0]] :
            b \in {1, 255}}
    \cup {[type_ |-> Type_CNAME, name |-> n] : n \in RtNames}
    \cup {[type_ |-> Type_NS, nsdname |-> n] : n \in RtNames}
    \cup {[type_ |-> Type_PTR, ptrdname |-> n] : n \in RtNames}
    \cup {[type_ |-> Type_MX, preference |-> v, exchange |-> n] :
            v \in RtU16, n \in RtNames}
    \cup {[type_ |-> Type_TXT, entries |-> e] :
            e \in {<<x>> : x \in RtStrings}
                  \cup {<<<<97, 98, 99>>, <<>>, <<100, 101, 102>>>>}}
    \cup {[type_ |-> Type_SRV, priority |-> v, weight |-> 65535 - v,
           port |-> 8080, target |-> n] : v \in RtU16, n \in RtNames}
    \cup {[type_ |-> Type_SOA, mname |-> n, rname |-> Name_ab, serial |-> v,
           refresh |-> [hi |-> 0, lo |-> 1], retry |-> v,
           expire |-> [hi |-> 32768, lo |-> 0], minimum_ttl |-> v] :
            n \in RtNames, v \in RtU32}

\* On-wire question classes: with and without the top bit, below and above
\* 255.
RtClasses == {0, 1, 255, 256, 257, 32767, 32768, 32769, 33023, 33025, 65535}

RtQuestions ==
    {[name |-> n, ty |-> t, class |-> c] :
        n \in {ROOT, Name_ab}, t \in {Type_A, QType_ALL}, c \in RtClasses}

RtStart(op, input) ==
    [op |-> op, input |-> input, stage |-> "given", bytes |-> <<>>,
     result |-> "none", vals |-> <<>>, pos |-> 0]

InitRT ==
    /\ rd = NoRd
    /\ dec = NoDec
    /\ enc = NoEnc
    /\ hdr = NoHdr
    /\ adv = NoAdv
    /\ res = NoRes
    /\ disc = NoDisc
    /\ \/ \E R \in RtRecords : rt = RtStart("record", R)
       \/ \E D \in RtNames : rt = RtStart("name", D)
       \/ \E Q \in RtQuestions : rt = RtStart("question", Q)

RtWritten(w) ==
    IF w.panic THEN [rt EXCEPT !.stage = "panicked", !.result = "panic"]
    ELSE [rt EXCEPT !.stage = "encoded", !.bytes = SubSeq(w.buf, 1, w.pos)]

\* rr.encode(&mut enc) on Writer::new(buf).
RtEncodeRecord ==
    /\ rt.op = "record"
    /\ rt.stage = "given"
    /\ rt' = RtWritten(Record_encode(Writer_new([i \in 1..RtBufLen |-> 0]),
                                     rt.input))
    /\ UNCHANGED <<rd, dec, enc, hdr, adv, res, disc>>

\* R::decode(&mut dec) on Reader::new(&buf[..pos]).
RtDecodeRecord ==
    /\ rt.op = "record"
    /\ rt.stage = "encoded"
    /\ LET Decoded(c) ==
               [rt EXCEPT !.stage = "decoded", !.result = c.result,
                          !.vals = c.vals, !.pos = c.pos]
       IN  rt' = Decoded(Record_decode(rt.input.type_, Cur(Reader_new(rt.bytes))))
    /\ UNCHANGED <<rd, dec, enc, hdr, adv, res, disc>>

RtWriteName ==
    /\ rt.op = "name"
    /\ rt.stage = "given"
    /\ rt' = RtWritten(write_domain_name(Writer_new([i \in 1..RtBufLen |-> 0]),
                                         rt.input))
    /\ UNCHANGED <<rd, dec, enc, hdr, adv, res, disc>>

RtReadName ==
    /\ rt.op = "name"
    /\ rt.stage = "encoded"
    /\ LET Decoded(n) ==
               [rt EXCEPT !.stage = "decoded", !.result = n.result,
                          !.vals = n.domain_name, !.pos = n.pos]
       IN  rt' = Decoded(read_domain_name(Reader_new(rt.bytes)))
    /\ UNCHANGED <<rd, dec, enc, hdr, adv, res, disc>>

RtWriteQuestion ==
    /\ rt.op = "question"
    /\ rt.stage = "given"
    /\ rt' = RtWritten(write_question(Writer_new([i \in 1..RtBufLen |-> 0]),
                                      rt.input))
    /\ UNCHANGED <<rd, dec, enc, hdr, adv, res, disc>>

RtReadQuestion ==
    /\ rt.op = "question"
    /\ rt.stage = "encoded"
    /\ LET Decoded(c) ==
               [rt EXCEPT !.stage = "decoded", !.result = c.result,
                          !.vals = c.vals, !.pos = c.pos]
       IN  rt' = Decoded(read_question(Reader_new(rt.bytes)))
    /\ UNCHANGED <<rd, dec, enc, hdr, adv, res, disc>>

NextRT ==
    \/ RtEncodeRecord
    \/ RtDecodeRecord
    \/ RtWriteName
    \/ RtReadName
    \/ RtWriteQuestion
    \/ RtReadQuestion

SpecRT == InitRT /\ [][NextRT]_vars

\* The fields of record R in the order its decoder yields them.
RecordFields(R) ==
    CASE R.type_ \in {Type_A, Type_AAAA} -> <<R.addr>>
      [] R.type_ = Type_CNAME -> <<R.name>>
      [] R.type_ = Type_NS -> <<R.nsdname>>
      [] R.type_ = Type_PTR -> <<R.ptrdname>>
      [] R.type_ = Type_MX -> <<R.preference, R.exchange>>
      [] R.type_ = Type_TXT -> R.entries
      [] R.type_ = Type_SRV -> <<R.priority, R.weight, R.port, R.target>>
      [] R.type_ = Type_SOA ->
            <<R.mname, R.rname, R.serial, R.refresh, R.retry, R.expire,
              R.minimum_ttl>>

\* While encode runs to its end, the record comes back.
RtRecordRoundtrip ==
    (rt.op = "record" /\ rt.stage = "decoded") =>
        (rt.result = "Ok" /\ rt.vals = RecordFields(rt.input))

(***************************************************************************)
(* C11: for every record R of the nine supported types (a TXT with at      *)
(* least one entry), encoding R into a large enough buffer and decoding    *)
(* the written bytes as the same type yields a record equal to R.          *)
(***************************************************************************)
C11_RecordRoundtrip ==
    (rt.op = "record" /\ rt.stage # "given") =>
        /\ rt.stage # "panicked"
        /\ rt.stage = "decoded" =>
              (rt.result = "Ok" /\ rt.vals = RecordFields(rt.input))

(***************************************************************************)
(* C12: for every DomainName D, the root included, write_domain_name into  *)
(* an unused, large enough buffer and read_domain_name from the start of   *)
(* the written bytes yield a name equal to D and leave the reader at the   *)
(* end of the written bytes.                                               *)
(***************************************************************************)
C12_NameRoundtrip ==
    (rt.op = "name" /\ rt.stage # "given") =>
        /\ rt.stage # "panicked"
        /\ Len(rt.bytes) = NameWireLen(rt.input)
        /\ rt.stage = "decoded" =>
              /\ rt.result = "Ok"
              /\ rt.vals = rt.input
              /\ rt.pos = Len(rt.bytes)

\* A name of two labels, the first of the maximum length, came back.
C12_Witness ==
    /\ rt.op = "name"
    /\ rt.stage = "decoded"
    /\ rt.input = Name_long
    /\ rt.vals = Name_long
    /\ rt.pos = MAX_LEN + 5

\* Name and type of a question come back, and the top bit of the class is
\* prefer_unicast.
RtQuestionRead ==
    (rt.op = "question" /\ rt.stage = "decoded") =>
        /\ rt.result = "Ok"
        /\ rt.vals.qname = rt.input.name
        /\ rt.vals.qtype = rt.input.ty
        /\ rt.vals.prefer_unicast = (rt.input.class >= 32768)
        /\ rt.pos = Len(rt.bytes)

(***************************************************************************)
(* C14: for every 16-bit on-wire question class c, the decoded question    *)
(* has prefer_unicast = (top bit of c) and qclass = c mod 0x8000, the low  *)
(* 15 bits of c.                                                           *)
(***************************************************************************)
C14_QClassLow15 ==
    (rt.op = "question" /\ rt.stage = "decoded") =>
        /\ rt.result = "Ok"
        /\ rt.vals.prefer_unicast = (rt.input.class >= 32768)
        /\ rt.vals.qclass = rt.input.class % 32768

(***************************************************************************)
(* packet.rs: Header.  A header is held as its six 16-bit fields; the      *)
(* flags word is a number 0..65535 whose bit be_pos(p) is RFC 1035 bit p.  *)
(***************************************************************************)
be_pos(pos) == 15 - pos

HeaderFlags_QR == 2 ^ be_pos(0)
HeaderFlags_AA == 2 ^ be_pos(5)
HeaderFlags_TC == 2 ^ be_pos(6)
HeaderFlags_RD == 2 ^ be_pos(7)
HeaderFlags_RA == 2 ^ be_pos(8)

OPCODE_POS == 11
RCODE_POS == 0
CODE_BITS == 15

\* bitflags: contains and set of a one-bit flag.
flags_contains(flags, bit) == (flags \div bit) % 2 = 1

flags_set(flags, bit, value) ==
    (flags - ((flags \div bit) % 2) * bit) + (IF value THEN bit ELSE 0)

\* (bits & (0b1111 << pos)) >> pos
flags_code(flags, pos) == (flags \div (2 ^ pos)) % (CODE_BITS + 1)

\* f.remove(0b1111 << pos)
flags_removeMutKeep(flags, pos) == flags - (flags_code(flags, pos) % 2) * (2 ^ pos)

flags_remove(flags, pos) == flags - flags_code(flags, pos) * (2 ^ pos)

\* bits |= (u16::from(code) << pos) & (0b1111 << pos), on a cleared field.
flags_or_code(flags, pos, code) ==
    flags + flags_code((code * (2 ^ pos)) % 65536, pos) * (2 ^ pos)

Header_set_id(h, id) == [h EXCEPT !.id = id]

Header_set_response(h, v) == [h EXCEPT !.flags = flags_set(@, HeaderFlags_QR, v)]

Header_set_truncated(h, v) == [h EXCEPT !.flags = flags_set(@, HeaderFlags_TC, v)]

Header_set_recursion_desired(h, v) ==
    [h EXCEPT !.flags = flags_set(@, HeaderFlags_RD, v)]

Header_set_recursion_available(h, v) ==
    [h EXCEPT !.flags = flags_set(@, HeaderFlags_RA, v)]

Header_set_authority(h, v) == [h EXCEPT !.flags = flags_set(@, HeaderFlags_AA, v)]

Header_set_opcode(h, opcode) ==
    [h EXCEPT !.flags = flags_or_code(flags_remove(@, OPCODE_POS), OPCODE_POS,
                                      opcode)]

Header_set_rcode(h, rcode) ==
    [h EXCEPT !.flags = flags_or_code(flags_remove(@, RCODE_POS), RCODE_POS, rcode)]

\* What the getters of h return.
Getters(h) ==
    [id |-> h.id,
     is_response |-> flags_contains(h.flags, HeaderFlags_QR),
     is_truncated |-> flags_contains(h.flags, HeaderFlags_TC),
     is_recursion_desired |-> flags_contains(h.flags, HeaderFlags_RD),
     is_recursion_available |-> flags_contains(h.flags, HeaderFlags_RA),
     is_authority |-> flags_contains(h.flags, HeaderFlags_AA),
     opcode |-> flags_code(h.flags, OPCODE_POS),
     rcode |-> flags_code(h.flags, RCODE_POS),
     question_count |-> h.qdcount, answer_count |-> h.ancount,
     authoritative_count |-> h.nscount, additional_count |-> h.arcount]

(***************************************************************************)
(* Specification SpecHdr: one setter call, with any argument, on a header. *)
(* hdr holds the header h, the header before the call, the setter op       *)
(* ("new" before the call) and its argument.                               *)
(***************************************************************************)
HdrFlags ==
    {0, 65535, 43690, 21845} \cup {2 ^ k : k \in 0..15}
        \cup {65535 - 2 ^ k : k \in 0..15}

HdrU16 == {0, 1, 12345, 65535}

HdrHeaders ==
    {[id |-> i, flags |-> f, qdcount |-> c, ancount |-> 65535 - c, nscount |-> 1,
      arcount |-> c] : i \in {0, 12345}, f \in HdrFlags, c \in {0, 65535}}

U8 == 0..255

InitHdr ==
    /\ rd = NoRd
    /\ dec = NoDec
    /\ enc = NoEnc
    /\ rt = NoRt
    /\ adv = NoAdv
    /\ res = NoRes
    /\ disc = NoDisc
    /\ \E h \in HdrHeaders : hdr = [h |-> h, before |-> h, op |-> "new", arg |-> 0]

HdrCalled(op, arg, h) == [h |-> h, before |-> hdr.h, op |-> op, arg |-> arg]

HdrSetId ==
    /\ hdr.op = "new"
    /\ \E v \in HdrU16 : hdr' = HdrCalled("id", v, Header_set_id(hdr.h, v))
    /\ UNCHANGED <<rd, dec, enc, rt, adv, res, disc>>

HdrSetResponse ==
    /\ hdr.op = "new"
    /\ \E v \in BOOLEAN :
          hdr' = HdrCalled("is_response", v, Header_set_response(hdr.h, v))
    /\ UNCHANGED <<rd, dec, enc, rt, adv, res, disc>>

HdrSetTruncated ==
    /\ hdr.op = "new"
    /\ \E v \in BOOLEAN :
          hdr' = HdrCalled("is_truncated", v, Header_set_truncated(hdr.h, v))
    /\ UNCHANGED <<rd, dec, enc, rt, adv, res, disc>>

HdrSetRecursionDesired ==
    /\ hdr.op = "new"
    /\ \E v \in BOOLEAN :
          hdr' = HdrCalled("is_recursion_desired", v,
                           Header_set_recursion_desired(hdr.h, v))
    /\ UNCHANGED <<rd, dec, enc, rt, adv, res, disc>>

HdrSetRecursionAvailable ==
    /\ hdr.op = "new"
    /\ \E v \in BOOLEAN :
          hdr' = HdrCalled("is_recursion_available", v,
                           Header_set_recursion_available(hdr.h, v))
    /\ UNCHANGED <<rd, dec, enc, rt, adv, res, disc>>

HdrSetAuthority ==
    /\ hdr.op = "new"
    /\ \E v \in BOOLEAN :
          hdr' = HdrCalled("is_authority", v, Header_set_authority(hdr.h, v))
    /\ UNCHANGED <<rd, dec, enc, rt, adv, res, disc>>

HdrSetOpcode ==
    /\ hdr.op = "new"
    /\ \E v \in U8 : hdr' = HdrCalled("opcode", v, Header_set_opcode(hdr.h, v))
    /\ UNCHANGED <<rd, dec, enc, rt, adv, res, disc>>

HdrSetRcode ==
    /\ hdr.op = "new"
    /\ \E v \in U8 : hdr' = HdrCalled("rcode", v, Header_set_rcode(hdr.h, v))
    /\ UNCHANGED <<rd, dec, enc, rt, adv, res, disc>>

NextHdr ==
    \/ HdrSetId
    \/ HdrSetResponse
    \/ HdrSetTruncated
    \/ HdrSetRecursionDesired
    \/ HdrSetRecursionAvailable
    \/ HdrSetAuthority
    \/ HdrSetOpcode
    \/ HdrSetRcode

SpecHdr == InitHdr /\ [][NextHdr]_vars

\* Every getter but the one of the setter called returns what it did before.
HdrOthersKept ==
    \A g \in DOMAIN Getters(hdr.h) \ {hdr.op} :
        Getters(hdr.h)[g] = Getters(hdr.before)[g]

(***************************************************************************)
(* C13 as stated: after a setter called with any value of its argument     *)
(* type, the matching getter returns the value set, and every other getter *)
(* and the four counts return what they returned before.                   *)
(***************************************************************************)
C13_SetterObserved ==
    hdr.op \notin {"none", "new"} =>
        /\ Getters(hdr.h)[hdr.op] = hdr.arg
        /\ HdrOthersKept

(***************************************************************************)
(* C13 amended: the same, except that the getter after set_opcode and      *)
(* set_rcode returns the low four bits of the code set, which is the code  *)
(* itself up to 15.                                                        *)
(***************************************************************************)
C13_SetterObservedLow4 ==
    hdr.op \notin {"none", "new"} =>
        /\ Getters(hdr.h)[hdr.op] =
              (IF hdr.op \in {"opcode", "rcode"} THEN hdr.arg % (CODE_BITS + 1)
               ELSE hdr.arg)
        /\ HdrOthersKept
        /\ hdr.h.flags \in 0..65535

\* set_rcode(BAD_KEY = 17) on a header with every flag bit set reads back as 1.
C13_Witness ==
    /\ hdr.op = "rcode"
    /\ hdr.arg = 17
    /\ hdr.before.flags = 65535
    /\ Getters(hdr.h).rcode = 1
    /\ Getters(hdr.h).opcode = 15

(***************************************************************************)
(* Header as bytes: six U16 fields, each big-endian (num.rs), in the order *)
(* of the struct.  Header_bytes is what set_header stores, HeaderOf what    *)
(* dec.header() reads back from the first HEADER_SIZE bytes of a packet.    *)
(***************************************************************************)
Header_default ==
    [id |-> 0, flags |-> 0, qdcount |-> 0, ancount |-> 0, nscount |-> 0,
     arcount |-> 0]

Header_bytes(h) ==
    <<h.id \div 256, h.id % 256, h.flags \div 256, h.flags % 256,
      h.qdcount \div 256, h.qdcount % 256, h.ancount \div 256, h.ancount % 256,
      h.nscount \div 256, h.nscount % 256, h.arcount \div 256, h.arcount % 256>>

HeaderOf(buf) ==
    LET u16(i) == buf[i] * 256 + buf[i + 1]
    IN  [id |-> u16(1), flags |-> u16(3), qdcount |-> u16(5),
         ancount |-> u16(7), nscount |-> u16(9), arcount |-> u16(11)]

(***************************************************************************)
(* packet.rs: QType::matches and QClass::matches.                          *)
(***************************************************************************)
Type_MB == 7
Type_MG == 8
Type_MR == 9
QType_AXFR == 252
QType_MAILB == 253
QType_MAILA == 254
QClass_ANY == 255
Opcode_QUERY == 0
RCode_NO_ERROR == 0

QType_matches(qtype, ty) ==
    CASE qtype = QType_AXFR -> FALSE
      [] qtype = QType_MAILB -> ty \in {Type_MB, Type_MG, Type_MR}
      [] qtype = QType_MAILA -> FALSE
      [] qtype = QType_ALL -> TRUE
      [] OTHER -> qtype = ty

QClass_matches(qclass, class) ==
    IF qclass = QClass_ANY THEN TRUE ELSE qclass = class

(***************************************************************************)
(* service/advertising.rs: the Advertiser.  db is RecordDb.entries, a      *)
(* sequence of Entry records [name, class, ttl, record].  Labels are byte  *)
(* sequences: Label_local is "local", Label_tcp "_tcp", Label_udp "_udp".  *)
(***************************************************************************)
MDNS_BUFFER_SIZE == 1500
TTL == [hi |-> 0, lo |-> 120]

Label_local == <<108, 111, 99, 97, 108>>
Label_tcp == <<95, 116, 99, 112>>
Label_udp == <<95, 117, 100, 112>>

\* DomainName::from_str("_services._dns-sd._udp.local.")
discovery_domain ==
    <<<<95, 115, 101, 114, 118, 105, 99, 101, 115>>,
      <<95, 100, 110, 115, 45, 115, 100>>, Label_udp, Label_local>>

Entry_new(name, record) ==
    [name |-> name, class |-> Class_IN, ttl |-> TTL, record |-> record]

\* addr is [v, octets]: IpAddr::V4 with 4 octets or IpAddr::V6 with 16.
add_nameMutPrepend(db, hostname, addr) ==
    LET host_and_domain == <<hostname, Label_local>>
        record == IF addr.v = 4 THEN [type_ |-> Type_A, addr |-> addr.octets]
                  ELSE [type_ |-> Type_AAAA, addr |-> addr.octets]
    IN  <<Entry_new(host_and_domain, record)>> \o db

add_name(db, hostname, addr) ==
    LET host_and_domain == <<hostname, Label_local>>
        record == IF addr.v = 4 THEN [type_ |-> Type_A, addr |-> addr.octets]
                  ELSE [type_ |-> Type_AAAA, addr |-> addr.octets]
    IN  Append(db, Entry_new(host_and_domain, record))

\* ServiceTransport::to_label
to_label(transport) == IF transport = "TCP" THEN Label_tcp ELSE Label_udp

\* The TXT entries of add_instance.  txt_records is the BTreeMap in key
\* order, a sequence of [k, tag, v]: tag is "NoValue" or "Value", v the
\* value's bytes.
RECURSIVE TxtEntries(_)
TxtEntries(txt_records) ==
    LET kv(e) == IF e.tag = "NoValue" THEN e.k ELSE e.k \o <<61>> \o e.v
    IN  IF txt_records = <<>> THEN <<>>
        ELSE <<kv(Head(txt_records))>> \o TxtEntries(Tail(txt_records))

add_instanceMutNoTxt(db, instance, details) ==
    LET service_domain ==
            <<instance.service_name, to_label(instance.service_transport),
              Label_local>>
        instance_domain == <<instance.instance_name>> \o service_domain
    IN  db \o <<Entry_new(instance_domain,
                          [type_ |-> Type_SRV, priority |-> 0, weight |-> 0,
                           port |-> details.port, target |-> details.host]),
                Entry_new(service_domain,
                          [type_ |-> Type_PTR, ptrdname |-> instance_domain]),
                Entry_new(discovery_domain,
                          [type_ |-> Type_PTR, ptrdname |-> service_domain])>>

add_instance(db, instance, details) ==
    LET service_domain ==
            <<instance.service_name, to_label(instance.service_transport),
              Label_local>>
        instance_domain == <<instance.instance_name>> \o service_domain
        txt == IF details.txt = <<>> THEN <<<<>>>> ELSE TxtEntries(details.txt)
    IN  db \o <<Entry_new(instance_domain,
                          [type_ |-> Type_SRV, priority |-> 0, weight |-> 0,
                           port |-> details.port, target |-> details.host]),
                Entry_new(instance_domain,
                          [type_ |-> Type_TXT, entries |-> txt]),
                Entry_new(service_domain,
                          [type_ |-> Type_PTR, ptrdname |-> instance_domain]),
                Entry_new(discovery_domain,
                          [type_ |-> Type_PTR, ptrdname |-> service_domain])>>

\* Advertiser::new
Advertiser_new(hostname, addr) == add_name(<<>>, hostname, addr)

(***************************************************************************)
(* Advertiser::handle_packet(packet).  The result is [out, err, resp,      *)
(* added, trunc]: out is "Err" (Err(e), e in err), "None" (Ok(None)),      *)
(* "Some" (Ok(Some(resp))) or "panic"; added lists, in the order of the    *)
(* add_answer calls, the database index of every entry added; trunc is the *)
(* encoder's flag at finish.  response_buf is zeroed by new; an earlier    *)
(* call leaves its bytes there, of which the encoder reads none and        *)
(* overwrites every one that the call returns.                             *)
(***************************************************************************)
HandleResult(out, err, resp, added, trunc) ==
    [out |-> out, err |-> err, resp |-> resp, added |-> added, trunc |-> trunc]

\* for entry in &self.db.entries { ... enc.add_answer(...) }
RECURSIVE ScanEntries(_, _, _, _, _)
ScanEntries(e, added, q, db, i) ==
    LET entry == db[i]
        RR == [name |-> entry.name, class |-> entry.class, ttl |-> entry.ttl,
               rdata |-> entry.record]
    IN  IF i > Len(db) \/ e.result = "panic" THEN [e |-> e, added |-> added]
        ELSE IF ~QClass_matches(q.qclass, entry.class)
        THEN ScanEntries(e, added, q, db, i + 1)
        ELSE IF ~QType_matches(q.qtype, entry.record.type_)
        THEN ScanEntries(e, added, q, db, i + 1)
        ELSE IF q.qname # entry.name
        THEN ScanEntries(e, added, q, db, i + 1)
        ELSE ScanEntries(add_answer(e, RR), Append(added, i), q, db, i + 1)

\* if have_relevant_answer { enc.finish().ok().unwrap_or(len) ... }
FinishResponse(e, added) ==
    LET Resp(r) ==
            IF r.result = "panic"
            THEN HandleResult("panic", "none", <<>>, added, e.trunc)
            ELSE HandleResult("Some", "none",
                              SubSeq(r.buf, 1, IF r.result = "Ok" THEN r.ret
                                               ELSE Len(r.buf)),
                              added, e.trunc)
    IN  IF added = <<>> THEN HandleResult("None", "none", <<>>, added, e.trunc)
        ELSE Resp(finish(e))

\* for res in dec.iter() { let q = res?; ... }
RECURSIVE AnswerQuestions(_, _, _, _)
AnswerQuestions(d, e, added, db) ==
    LET Scanned(s, d1) ==
            IF s.e.result = "panic"
            THEN HandleResult("panic", "none", <<>>, s.added, s.e.trunc)
            ELSE AnswerQuestions(d1, s.e, s.added, db)
        Step(n) ==
            CASE n.res = "None" -> FinishResponse(e, added)
              [] n.res = "panic" ->
                    HandleResult("panic", "none", <<>>, added, e.trunc)
              [] n.res = "Ok" -> Scanned(ScanEntries(e, added, n.q, db, 1), n.d)
              [] OTHER -> HandleResult("Err", n.res, <<>>, added, e.trunc)
    IN  Step(next_rr(d))

\* The header of every response: default, then set_id, set_response(true),
\* set_authority(true).
ResponseHeaderMutNoAuthority(id) ==
    Header_set_response(Header_set_id(Header_default, id), TRUE)

ResponseHeader(id) ==
    Header_set_authority(
        Header_set_response(Header_set_id(Header_default, id), TRUE), TRUE)

handle_packet(db, packet) ==
    LET Encode(d, e) ==
            AnswerQuestions(d, [e EXCEPT !.section = "Answer"], <<>>, db)
        Query(d, h) ==
            IF flags_contains(h.flags, HeaderFlags_QR)
            THEN HandleResult("None", "none", <<>>, <<>>, FALSE)
            ELSE IF flags_code(h.flags, OPCODE_POS) # Opcode_QUERY
            THEN HandleResult("None", "none", <<>>, <<>>, FALSE)
            ELSE IF flags_code(h.flags, RCODE_POS) # RCode_NO_ERROR
            THEN HandleResult("None", "none", <<>>, <<>>, FALSE)
            ELSE Encode(d, set_header(
                     MessageEncoder_new([i \in 1..MDNS_BUFFER_SIZE |-> 0]),
                     Header_bytes(ResponseHeader(h.id))))
        Decoder(d) ==
            IF d.section = "new_failed"
            THEN HandleResult("Err", "Eof", <<>>, <<>>, FALSE)
            ELSE Query(d, HeaderOf(packet))
    IN  Decoder(MessageDecoder_new(packet))

(***************************************************************************)
(* Specification SpecAdv: an Advertiser made by new("h", 192.0.2.1), given *)
(* up to MaxAddCalls add_name / add_instance calls, and handed packets.    *)
(* adv is [state, db, names, instances, last]: names counts the add_name   *)
(* calls made after new, instances lists the arguments in of the           *)
(* add_instance calls and the length at of the database before each, last  *)
(* is [op, packet, result, before] of the latest call, before being the    *)
(* database the call started from.  handle_packet changes        *)
(* nothing but response_buf, of which every byte it returns is written     *)
(* during the same call, so a packet is handled from each database once.   *)
(***************************************************************************)
MaxAddCalls == 2

Label_h == <<104>>
Label_g == <<103>>
Label_x == <<120>>
Label_svc == <<95, 115, 118, 99>>
Label_My == <<77, 121>>
Name_h_local == <<Label_h, Label_local>>
Name_g_local == <<Label_g, Label_local>>
Name_x_local == <<Label_x, Label_local>>

Addr_V4 == [v |-> 4, octets |-> <<192, 0, 2, 1>>]
Addr_V6 == [v |-> 6, octets |-> [i \in 1..16 |-> IF i = 16 THEN 1 ELSE 0]]

AdvNameInputs == {[hostname |-> Label_g, addr |-> a] : a \in {Addr_V4, Addr_V6}}

\* (instance, details) arguments of add_instance.  The first two are
\* instances of one service type.  The third has keys a
\* (no value), b = "1" and BigTxtKeys more keys with BigTxtValue, which make
\* a TXT record longer than response_buf.
BigTxtKeys == 6
BigTxtValue == [i \in 1..250 |-> 120]

AdvInstanceInputs ==
    {[instance |-> [instance_name |-> Label_My, service_name |-> Label_svc,
                    service_transport |-> "TCP"],
      details |-> [host |-> Name_h_local, port |-> 8080, txt |-> <<>>]],
     [instance |-> [instance_name |-> Label_x, service_name |-> Label_svc,
                    service_transport |-> "TCP"],
      details |-> [host |-> Name_x_local, port |-> 80, txt |-> <<>>]],
     [instance |-> [instance_name |-> Label_My, service_name |-> Label_svc,
                    service_transport |-> "Other"],
      details |-> [host |-> Name_g_local, port |-> 65535,
                   txt |-> <<[k |-> <<97>>, tag |-> "NoValue", v |-> <<>>],
                             [k |-> <<98>>, tag |-> "Value", v |-> <<49>>]>>
                            \o [i \in 1..BigTxtKeys |->
                                   [k |-> <<98 + i>>, tag |-> "Value",
                                    v |-> BigTxtValue]]]]}

\* Questions as they go on the wire: name, 16-bit type, 16-bit class word.
Q(name, ty, class) == [name |-> name, ty |-> ty, class |-> class]

AdvQuestions ==
    {Q(Name_h_local, Type_A, QClass_IN),
     Q(Name_h_local, QType_ALL, QClass_ANY),
     Q(Name_h_local, Type_A, 257),
     Q(Name_h_local, Type_A, 32769),
     Q(Name_h_local, Type_A, 3),
     Q(Name_h_local, Type_AAAA, QClass_IN),
     Q(Name_h_local, QType_MAILB, QClass_IN),
     Q(Name_h_local, QType_AXFR, QClass_IN),
     Q(Name_h_local, QType_MAILA, QClass_IN),
     Q(Name_g_local, QType_ALL, QClass_IN),
     Q(Name_x_local, Type_A, QClass_IN),
     Q(<<Label_My, Label_svc, Label_tcp, Label_local>>, QType_ALL, QClass_IN),
     Q(<<Label_My, Label_svc, Label_udp, Label_local>>, Type_TXT, QClass_IN),
     Q(<<Label_svc, Label_tcp, Label_local>>, Type_PTR, QClass_IN),
     Q(discovery_domain, Type_PTR, QClass_ANY)}

AdvQuestionLists ==
    {<<>>} \cup {<<q>> : q \in AdvQuestions}
    \cup {<<Q(Name_h_local, Type_A, QClass_IN),
            Q(Name_h_local, Type_A, QClass_IN)>>,
          <<Q(Name_x_local, Type_A, QClass_IN),
            Q(Name_h_local, QType_ALL, QClass_ANY)>>,
          <<Q(discovery_domain, Type_PTR, QClass_ANY),
            Q(Name_g_local, QType_ALL, QClass_IN),
            Q(Name_h_local, Type_A, QClass_IN)>>,
          <<Q(Name_h_local, Type_A, 257),
            Q(Name_x_local, Type_A, QClass_IN)>>}

QuestionBytes(q) ==
    write_question(Writer_new([i \in 1..QuestionWireLen(q) |-> 0]), q).buf

RECURSIVE QuestionsBytes(_)
QuestionsBytes(qs) ==
    IF qs = <<>> THEN <<>>
    ELSE QuestionBytes(Head(qs)) \o QuestionsBytes(Tail(qs))

\* A packet: header h with QDCOUNT = Len(qs) + extra, the questions qs and
\* the bytes tail.  qs and extra are kept beside the bytes.
AdvPacket(h, qs, extra, tail) ==
    [bytes |-> Header_bytes([h EXCEPT !.qdcount = Len(qs) + extra])
                  \o QuestionsBytes(qs) \o tail,
     h |-> h, qs |-> qs, extra |-> extra]

\* Query headers: plain; every bit but QR, the opcode and the rcode set.
AdvQueryHeaders ==
    {[Header_default EXCEPT !.id = 4660],
     [Header_default EXCEPT !.id = 65535, !.flags = 2032, !.ancount = 1]}

\* Headers handle_packet turns away: QR set, opcode 1, opcode 8, rcode 1,
\* rcode 8.
AdvOtherHeaders ==
    {[Header_default EXCEPT !.id = 4660, !.flags = f] :
        f \in {32768, 2048, 16384, 1, 8}}

AdvPackets ==
    {AdvPacket([Header_default EXCEPT !.id = 4660], qs, 0, <<>>) :
        qs \in AdvQuestionLists}
    \cup {AdvPacket(h, <<Q(Name_h_local, Type_A, QClass_IN)>>, 0, <<>>) :
             h \in AdvQueryHeaders}
    \cup {AdvPacket(h, <<Q(Name_h_local, Type_A, QClass_IN)>>, 0, <<>>) :
             h \in AdvOtherHeaders}
    \cup {AdvPacket([Header_default EXCEPT !.id = 4660], qs, 1, tail) :
             qs \in {<<>>, <<Q(Name_h_local, Type_A, QClass_IN)>>},
             tail \in {<<>>, <<64>>, <<192>>, <<1, 104, 0, 0, 1, 0>>}}
    \cup {[bytes |-> [i \in 1..(HEADER_SIZE - 1) |-> 0], h |-> Header_default,
           qs |-> <<>>, extra |-> 0]}

NoPacket == [bytes |-> <<>>, h |-> Header_default, qs |-> <<>>, extra |-> 0]
NoResult == HandleResult("none", "none", <<>>, <<>>, FALSE)

InitAdv ==
    /\ rd = NoRd
    /\ dec = NoDec
    /\ enc = NoEnc
    /\ rt = NoRt
    /\ hdr = NoHdr
    /\ res = NoRes
    /\ disc = NoDisc
    /\ adv = [state |-> "ready", db |-> Advertiser_new(Label_h, Addr_V4),
              names |-> 0, instances |-> <<>>,
              last |-> [op |-> "new", packet |-> NoPacket, result |-> NoResult,
                        before |-> <<>>]]

AdvAdds == adv.names + Len(adv.instances)

AdvAddName ==
    /\ adv.state = "ready"
    /\ AdvAdds < MaxAddCalls
    /\ \E in \in AdvNameInputs :
          adv' = [adv EXCEPT !.db = add_name(adv.db, in.hostname, in.addr),
                             !.names = @ + 1,
                             !.last = [op |-> "add_name", packet |-> NoPacket,
                                       result |-> NoResult, before |-> adv.db]]
    /\ UNCHANGED <<rd, dec, enc, rt, hdr, res, disc>>

AdvAddInstance ==
    /\ adv.state = "ready"
    /\ AdvAdds < MaxAddCalls
    /\ \E in \in AdvInstanceInputs :
          adv' = [adv EXCEPT !.db = add_instance(adv.db, in.instance, in.details),
                             !.instances = Append(@, [in |-> in,
                                                      at |-> Len(adv.db)]),
                             !.last = [op |-> "add_instance",
                                       packet |-> NoPacket,
                                       result |-> NoResult, before |-> adv.db]]
    /\ UNCHANGED <<rd, dec, enc, rt, hdr, res, disc>>

AdvHandlePacket ==
    /\ adv.state = "ready"
    /\ adv.last.op # "handle_packet"
    /\ \E packet \in AdvPackets :
          adv' = [adv EXCEPT !.last = [op |-> "handle_packet",
                                       packet |-> packet,
                                       result |-> handle_packet(adv.db,
                                                                packet.bytes),
                                       before |-> adv.db]]
    /\ UNCHANGED <<rd, dec, enc, rt, hdr, res, disc>>

NextAdv == AdvAddName \/ AdvAddInstance \/ AdvHandlePacket

SpecAdv == InitAdv /\ [][NextAdv]_vars

(***************************************************************************)
(* What a packet asks for, read off the questions it was built from: the   *)
(* question's class is the low 15 bits of its class word.  ExpectedPairs   *)
(* lists <<question index, database index>> of every matching pair, for    *)
(* each question in wire order, each entry in insertion order.             *)
(***************************************************************************)
PairMatches(q, entry) ==
    /\ QClass_matches(q.class % 32768, entry.class)
    /\ QType_matches(q.ty, entry.record.type_)
    /\ q.name = entry.name

RECURSIVE PairsFrom(_, _, _, _)
PairsFrom(qs, db, i, j) ==
    IF i > Len(qs) THEN <<>>
    ELSE IF j > Len(db) THEN PairsFrom(qs, db, i + 1, 1)
    ELSE IF PairMatches(qs[i], db[j])
    THEN <<(<<i, j>>)>> \o PairsFrom(qs, db, i, j + 1)
    ELSE PairsFrom(qs, db, i, j + 1)

ExpectedPairs(qs, db) == PairsFrom(qs, db, 1, 1)

\* The header is whole and is a query with opcode QUERY and rcode NO_ERROR.
IsPlainQuery(packet) ==
    /\ Len(packet.bytes) >= HEADER_SIZE
    /\ ~flags_contains(packet.h.flags, HeaderFlags_QR)
    /\ flags_code(packet.h.flags, OPCODE_POS) = Opcode_QUERY
    /\ flags_code(packet.h.flags, RCODE_POS) = RCode_NO_ERROR

\* Every question the header announces is there (tail never holds one).
QuestionsDecode(packet) == packet.extra = 0

AdvHandled == adv.state = "ready" /\ adv.last.op = "handle_packet"

AdvResponds(packet, db, result) ==
    /\ result.out = "Some" <=>
          /\ IsPlainQuery(packet)
          /\ QuestionsDecode(packet)
          /\ ExpectedPairs(packet.qs, db) # <<>>
    /\ result.out \in {"Some", "None", "Err"}
    /\ IsPlainQuery(packet) /\ ~QuestionsDecode(packet) => result.out = "Err"
    /\ Len(packet.bytes) < HEADER_SIZE => result.out = "Err"

(***************************************************************************)
(* C15: handle_packet returns a response exactly when the header is a      *)
(* query with opcode QUERY and rcode NO_ERROR, every question decodes and  *)
(* at least one (question, entry) pair matches; otherwise it returns no    *)
(* response, and an error when the question section does not decode, even  *)
(* if an earlier question matched.                                         *)
(***************************************************************************)
C15_RespondsExactly ==
    AdvHandled => AdvResponds(adv.last.packet, adv.db, adv.last.result)

\* The class words of the questions have bits 8..14 clear, and the packet
\* does not end in the first byte of a compression pointer.
AdvLowClasses(packet) ==
    /\ \A i \in 1..Len(packet.qs) : (packet.qs[i].class % 32768) < 256
    /\ packet.bytes = <<>> \/ packet.bytes[Len(packet.bytes)] < 192

\* C15 holds for such packets.
AdvRespondsLowClasses ==
    AdvHandled /\ AdvLowClasses(adv.last.packet) =>
        AdvResponds(adv.last.packet, adv.db, adv.last.result)

\* A question that matched, then a question cut short: an error, no response.
AdvErrAfterMatch ==
    /\ AdvHandled
    /\ adv.last.result.out = "Err"
    /\ adv.last.result.added # <<>>

(***************************************************************************)
(* C16: every response returned by handle_packet carries the ID of the     *)
(* query and has QR = 1, AA = 1, opcode QUERY, rcode NO_ERROR, and RD, RA  *)
(* and the reserved bits 4..6 clear, whatever the query's bits were.       *)
(***************************************************************************)
ReservedBits(flags) == (flags \div 16) % 8

C16_ResponseHeader ==
    AdvHandled /\ adv.last.result.out = "Some" =>
        LET h == HeaderOf(adv.last.result.resp)
        IN  /\ h.id = adv.last.packet.h.id
            /\ flags_contains(h.flags, HeaderFlags_QR)
            /\ flags_contains(h.flags, HeaderFlags_AA)
            /\ flags_code(h.flags, OPCODE_POS) = Opcode_QUERY
            /\ flags_code(h.flags, RCODE_POS) = RCode_NO_ERROR
            /\ ~flags_contains(h.flags, HeaderFlags_RD)
            /\ ~flags_contains(h.flags, HeaderFlags_RA)
            /\ ReservedBits(h.flags) = 0

\* A response to the query with ID 65535 and AA, TC, RD, RA and the reserved
\* bits set.
C16_Witness ==
    /\ AdvHandled
    /\ adv.last.result.out = "Some"
    /\ adv.last.packet.h.id = 65535
    /\ flags_contains(adv.last.packet.h.flags, HeaderFlags_RD)
    /\ flags_contains(adv.last.packet.h.flags, HeaderFlags_RA)
    /\ ReservedBits(adv.last.packet.h.flags) = 7
    /\ HeaderOf(adv.last.result.resp).id = 65535

(***************************************************************************)
(* The answer section of a response, read back with the MessageDecoder:    *)
(* answers is the sequence of [name, class, ttl, type_, ok, fields] of the *)
(* records read, res is what next() returned last ("None" at the end of    *)
(* the section).                                                           *)
(***************************************************************************)
AnswerOf(rr) ==
    LET Decoded(e) ==
            [name |-> rr.name, class |-> rr.class, ttl |-> rr.ttl,
             type_ |-> rr.type_, ok |-> e.some /\ e.c.result = "Ok",
             fields |-> IF e.some /\ e.c.result = "Ok" THEN e.c.vals ELSE <<>>]
    IN  Decoded(from_rr(rr))

RECURSIVE ReadAnswers(_, _)
ReadAnswers(d, acc) ==
    LET Step(n) ==
            IF n.res = "Ok" THEN ReadAnswers(n.d, Append(acc, AnswerOf(n.val)))
            ELSE [answers |-> acc, res |-> n.res]
    IN  Step(next_rr(d))

ResponseAnswers(resp) ==
    LET Start(t) ==
            IF t.res # "Ok" THEN [answers |-> <<>>, res |-> t.res]
            ELSE ReadAnswers(t.d, <<>>)
    IN  Start(Transition(MessageDecoder_new(resp), "Answer"))

\* The answer the claim expects for a database entry.
ExpectedAnswer(entry) ==
    [name |-> entry.name, class |-> Class_IN, ttl |-> [hi |-> 0, lo |-> 120],
     type_ |-> entry.record.type_, ok |-> TRUE,
     fields |-> RecordFields(entry.record)]

AnswersAre(resp, pairs, db) ==
    LET Same(ra) ==
            /\ ra.res = "None"
            /\ ra.answers = [k \in 1..Len(pairs) |-> ExpectedAnswer(db[pairs[k][2]])]
    IN  /\ HeaderOf(resp).ancount = Len(pairs)
        /\ Same(ResponseAnswers(resp))

(***************************************************************************)
(* C17: the answer section of a response holds, for each question in wire  *)
(* order, each database entry in insertion order whose class, type and     *)
(* name the question matches, with the entry's name, class IN, TTL 120 and *)
(* record data, and the answer count is the number of such pairs.          *)
(***************************************************************************)
C17_AnswersExact ==
    AdvHandled /\ adv.last.result.out = "Some" =>
        AnswersAre(adv.last.result.resp,
                   ExpectedPairs(adv.last.packet.qs, adv.db), adv.db)

\* C17 holds for packets whose class words have bits 8..14 clear, while the
\* response fits response_buf.
AdvAnswersLowClassesFit ==
    /\ AdvHandled
    /\ adv.last.result.out = "Some"
    /\ AdvLowClasses(adv.last.packet)
    /\ ~adv.last.result.trunc
    => AnswersAre(adv.last.result.resp,
                  ExpectedPairs(adv.last.packet.qs, adv.db), adv.db)

\* A response that does not fit: TC is set and the count is the number of
\* pairs, but the section does not hold every record whole.
AdvTruncatedCounts ==
    /\ AdvHandled
    /\ adv.last.result.out = "Some"
    /\ AdvLowClasses(adv.last.packet)
    /\ adv.last.result.trunc
    => /\ HeaderOf(adv.last.result.resp).ancount =
             Len(ExpectedPairs(adv.last.packet.qs, adv.db))
       /\ flags_contains(HeaderOf(adv.last.result.resp).flags, HeaderFlags_TC)
       /\ Len(adv.last.result.resp) = MDNS_BUFFER_SIZE
       /\ ~AnswersAre(adv.last.result.resp,
                      ExpectedPairs(adv.last.packet.qs, adv.db), adv.db)

\* A response to a question of class 257, which no entry matches.
AdvAnsweredClass257 ==
    /\ AdvHandled
    /\ adv.last.result.out = "Some"
    /\ adv.last.packet.qs = <<Q(Name_h_local, Type_A, 257)>>
    /\ ExpectedPairs(adv.last.packet.qs, adv.db) = <<>>

(***************************************************************************)
(* C18: after any sequence of add_name and add_instance calls the database *)
(* holds 1 + (add_name calls) + 4 * (add_instance calls) entries; for each *)
(* added instance it holds, in this order, an SRV entry at                 *)
(* instance.service.transport.local with priority 0, weight 0 and the      *)
(* given port and host, a TXT entry at the same name (one empty string     *)
(* when no TXT records were given), a PTR entry at service.transport.local *)
(* pointing at the instance name and a PTR entry at                        *)
(* _services._dns-sd._udp.local pointing at service.transport.local; every *)
(* entry has class IN and TTL 120.                                         *)
(***************************************************************************)
InstanceEntries(db, at, instance, details) ==
    LET transport == IF instance.service_transport = "TCP"
                     THEN <<95, 116, 99, 112>> ELSE <<95, 117, 100, 112>>
        service == <<instance.service_name, transport,
                     <<108, 111, 99, 97, 108>>>>
        name == <<instance.instance_name>> \o service
    IN  /\ db[at + 1].name = name
        /\ db[at + 1].record = [type_ |-> Type_SRV, priority |-> 0,
                                weight |-> 0, port |-> details.port,
                                target |-> details.host]
        /\ db[at + 2].name = name
        /\ db[at + 2].record.type_ = Type_TXT
        /\ details.txt = <<>> => db[at + 2].record.entries = <<<<>>>>
        /\ db[at + 3].name = service
        /\ db[at + 3].record = [type_ |-> Type_PTR, ptrdname |-> name]
        /\ db[at + 4].name = discovery_domain
        /\ db[at + 4].record = [type_ |-> Type_PTR, ptrdname |-> service]

C18_DatabaseShape ==
    adv.state = "ready" =>
        /\ Len(adv.db) = 1 + adv.names + 4 * Len(adv.instances)
        /\ \A k \in 1..Len(adv.instances) :
              InstanceEntries(adv.db, adv.instances[k].at,
                              adv.instances[k].in.instance,
                              adv.instances[k].in.details)
        /\ \A j \in 1..Len(adv.db) :
              adv.db[j].class = 1 /\ adv.db[j].ttl = [hi |-> 0, lo |-> 120]

\* add_name, then add_instance without TXT records: six entries.
C18_Witness ==
    /\ adv.state = "ready"
    /\ adv.names = 1
    /\ Len(adv.instances) = 1
    /\ adv.instances[1].at = 2
    /\ adv.instances[1].in.details.txt = <<>>
    /\ Len(adv.db) = 6

(***************************************************************************)
(* C19: the database is append-only.  add_name and add_instance leave the  *)
(* entries already there as they are and where they are, and handle_packet *)
(* leaves the database unchanged, whether it answers, ignores or rejects   *)
(* the packet.                                                             *)
(***************************************************************************)
C19_AppendOnly ==
    [][/\ Len(adv'.db) >= Len(adv.db)
       /\ SubSeq(adv'.db, 1, Len(adv.db)) = adv.db
       /\ adv'.last.op = "handle_packet" => adv'.db = adv.db
       /\ adv'.last.before = adv.db]_vars

\* An answered packet on a database of six entries, all still there.
C19_Witness ==
    /\ AdvHandled
    /\ adv.last.result.out = "Some"
    /\ Len(adv.last.before) = 6
    /\ adv.db = adv.last.before

(***************************************************************************)
(* resolver.rs: encode_query and decode_answer.                            *)
(***************************************************************************)
QUERY_ID == 12345
DNS_BUFFER_SIZE == 512

\* The header of the query: default, set_recursion_desired(true), set_id.
QueryHeader ==
    Header_set_id(Header_set_recursion_desired(Header_default, TRUE), QUERY_ID)

\* [result, data]: result is "Ok" with the bytes written, or "panic" when
\* finish().unwrap() meets Err(Truncated).
encode_query(buf, name) ==
    LET Bytes(r) ==
            IF r.result = "Ok"
            THEN [result |-> "Ok", data |-> SubSeq(r.buf, 1, r.ret)]
            ELSE [result |-> "panic", data |-> <<>>]
        AAAA(e) == Bytes(finish(question(e, [name |-> name, ty |-> Type_AAAA,
                                             class |-> QClass_IN])))
        A(e) == AAAA(question(e, [name |-> name, ty |-> Type_A,
                                  class |-> QClass_IN]))
    IN  A(set_header(MessageEncoder_new(buf), Header_bytes(QueryHeader)))

\* for res in dec.answers()?.iter(): [result, ip_buf], result "Ok", an Error
\* name or "panic".  An address is [v, octets].
RECURSIVE PushAnswers(_, _)
PushAnswers(d, ip_buf) ==
    LET Enum(n, e) ==
            IF ~e.some THEN PushAnswers(n.d, ip_buf)
            ELSE IF e.c.result = "panic"
            THEN [result |-> "panic", ip_buf |-> ip_buf]
            ELSE IF e.c.result # "Ok"
            THEN [result |-> e.c.result, ip_buf |-> ip_buf]
            ELSE IF n.val.type_ = Type_A
            THEN PushAnswers(n.d, Append(ip_buf, [v |-> 4, octets |-> e.c.vals[1]]))
            ELSE IF n.val.type_ = Type_AAAA
            THEN PushAnswers(n.d, Append(ip_buf, [v |-> 6, octets |-> e.c.vals[1]]))
            ELSE PushAnswers(n.d, ip_buf)
        Step(n) ==
            CASE n.res = "None" -> [result |-> "Ok", ip_buf |-> ip_buf]
              [] n.res = "Ok" -> Enum(n, from_rr(n.val))
              [] OTHER -> [result |-> n.res, ip_buf |-> ip_buf]
    IN  Step(next_rr(d))

decode_answer(msg, ip_buf) ==
    LET Answers(t) ==
            IF t.res # "Ok" THEN [result |-> t.res, ip_buf |-> ip_buf]
            ELSE PushAnswers(t.d, ip_buf)
        Decoder(d) ==
            IF d.section = "new_failed" THEN [result |-> "Eof", ip_buf |-> ip_buf]
            ELSE IF ~flags_contains(HeaderOf(msg).flags, HeaderFlags_QR)
            THEN [result |-> "Ok", ip_buf |-> ip_buf]
            ELSE Answers(Transition(d, "Answer"))
    IN  Decoder(MessageDecoder_new(msg))

(***************************************************************************)
(* Specification SpecRes: a SyncResolver made by new, given up to          *)
(* MaxServers servers, then one resolve_domain call that receives up to    *)
(* MaxRecv datagrams.  res is [state, servers, is_multicast, name, called, *)
(* data, i, sent, recvs, ip_buf, ret]: called tells that resolve_domain    *)
(* was entered, state is "idle" before the call,                           *)
(* "sending" inside the send loop (i the index of the next server),        *)
(* "receiving" inside the receive loop, "returned" after Ok, "failed"      *)
(* after Err (the error in ret), "panicked" after a panic; sent lists      *)
(* every send_to that returned Ok, as [to, data]; recvs counts the         *)
(* recv_from calls that returned a datagram.                               *)
(***************************************************************************)
MaxServers == 2
MaxRecv == 2
\* The read timeout, in clock ticks.
ResTimeout == 2

\* IpAddr::is_multicast: 224.0.0.0/4, ff00::/8.
is_multicast(ip) ==
    IF Len(ip) = 4 THEN ip[1] \div 16 = 14 ELSE ip[1] = 255

\* The address the socket of new(sock) is bound to: the unspecified address
\* of the family of sock.
bind_addr(sock) ==
    IF ~sock.v4 THEN [i \in 1..16 |-> 0] ELSE <<0, 0, 0, 0>>

\* SyncResolver::new(sock).
Resolver_new(sock) ==
    [servers |-> <<sock>>, is_multicast |-> is_multicast(bind_addr(sock))]

Ip6(first, last) == [i \in 1..16 |-> IF i = 1 THEN first ELSE IF i = 16 THEN last ELSE 0]

\* A server address: its octets and its family. The last is the mDNS group
\* of new_multicast_v4.
ResServers ==
    {[ip |-> <<192, 0, 2, 53>>, v4 |-> TRUE], [ip |-> Ip6(32, 83), v4 |-> FALSE],
     [ip |-> <<224, 0, 0, 251>>, v4 |-> TRUE]}

\* The number of MAX_LEN-byte labels of the longest name whose query fits
\* send_buf.
FitLabels == (MDNS_BUFFER_SIZE - HEADER_SIZE - 10) \div (2 * (MAX_LEN + 1))

ResNames ==
    {ROOT, Name_h_local}
    \cup {[i \in 1..k |-> [j \in 1..MAX_LEN |-> 120]] :
             k \in {FitLabels, FitLabels + 1}}

RRBytes(rr) == write_rr(Writer_new([i \in 1..RRWireLen(rr) |-> 0]), rr).buf

RECURSIVE RRsBytes(_)
RRsBytes(rrs) ==
    IF rrs = <<>> THEN <<>> ELSE RRBytes(Head(rrs)) \o RRsBytes(Tail(rrs))

\* A datagram: header h with ANCOUNT = Len(rrs) + extra, the records rrs
\* and the bytes tail. It is well formed when the section count is the
\* number of records and nothing follows them.
ResDatagram(h, rrs, extra, tail) ==
    [bytes |-> Header_bytes([h EXCEPT !.ancount = Len(rrs) + extra])
                   \o RRsBytes(rrs) \o tail,
     h |-> h, rrs |-> rrs, wf |-> extra = 0 /\ tail = <<>>]

\* Bytes that are no DNS message.
ResRaw(bytes) ==
    [bytes |-> bytes, h |-> Header_default, rrs |-> <<>>, wf |-> FALSE]

Ans_A == [name |-> Name_a, class |-> Class_IN, ttl |-> TTL,
         rdata |-> [type_ |-> Type_A, addr |-> <<192, 0, 2, 1>>]]
Ans_AAAA == [name |-> Name_a, class |-> Class_IN, ttl |-> TTL,
            rdata |-> [type_ |-> Type_AAAA, addr |-> Addr_V6.octets]]
Ans_PTR == [name |-> Name_a, class |-> Class_IN, ttl |-> TTL,
           rdata |-> [type_ |-> Type_PTR, ptrdname |-> Name_a]]
Ans_A_h == [name |-> Name_h_local, class |-> Class_IN, ttl |-> TTL,
           rdata |-> [type_ |-> Type_A, addr |-> <<192, 0, 2, 2>>]]

ResponseHeaderOf(id) == Header_set_response(Header_set_id(Header_default, id), TRUE)

\* Responses with addresses, with none, cut short; a query; a short packet.
ResDatagrams ==
    {ResDatagram(ResponseHeaderOf(QUERY_ID), <<Ans_A>>, 0, <<>>),
     ResDatagram(ResponseHeaderOf(QUERY_ID), <<Ans_A_h>>, 0, <<>>),
     ResDatagram(ResponseHeaderOf(0), <<Ans_PTR, Ans_AAAA, Ans_A>>, 0, <<>>),
     ResDatagram(ResponseHeaderOf(QUERY_ID), <<>>, 0, <<>>),
     ResDatagram(ResponseHeaderOf(QUERY_ID), <<Ans_A>>, 1, <<1, 97>>),
     ResDatagram(QueryHeader, <<Ans_A>>, 0, <<>>),
     ResRaw(<<1, 2, 3>>)}

\* clock is the time since the query was sent, rx_at the time at which the
\* pending recv_from was called, log the datagrams received with the time
\* of their arrival, last the last add_server call.
InitRes ==
    /\ rd = NoRd
    /\ dec = NoDec
    /\ enc = NoEnc
    /\ rt = NoRt
    /\ hdr = NoHdr
    /\ adv = NoAdv
    /\ disc = NoDisc
    /\ \E sock \in ResServers, name \in ResNames :
          res = [state |-> "idle", servers |-> Resolver_new(sock).servers,
                 is_multicast |-> Resolver_new(sock).is_multicast,
                 name |-> name, called |-> FALSE, data |-> <<>>, i |-> 0,
                 sent |-> <<>>,
                 recvs |-> 0, ip_buf |-> <<>>, ret |-> "none",
                 clock |-> 0, rx_at |-> 0, log |-> <<>>,
                 last |-> [op |-> "new", server |-> sock, before |-> <<>>]]

\* add_server: both assertions, then push.
ResAddServer ==
    /\ res.state = "idle"
    /\ Len(res.servers) < MaxServers
    /\ \E server \in ResServers :
          LET Noted(r) ==
                  [r EXCEPT !.last = [op |-> "add_server", server |-> server,
                                      before |-> res.servers]]
          IN  res' = IF res.is_multicast
                        \/ res.servers[Len(res.servers)].v4 # server.v4
                     THEN Noted([res EXCEPT !.state = "panicked"])
                     ELSE Noted([res EXCEPT !.servers = Append(@, server)])
    /\ UNCHANGED <<rd, dec, enc, rt, hdr, adv, disc>>

\* resolve_domain up to the send loop: ip_buf.clear(), encode_query.
ResResolveDomain ==
    /\ res.state = "idle"
    /\ LET Built(q) ==
               IF q.result = "panic"
               THEN [res EXCEPT !.state = "panicked", !.called = TRUE,
                                !.ip_buf = <<>>]
               ELSE [res EXCEPT !.state = "sending", !.called = TRUE,
                                !.data = q.data, !.i = 1, !.ip_buf = <<>>]
       IN  res' = Built(encode_query([i \in 1..MDNS_BUFFER_SIZE |-> 0], res.name))
    /\ UNCHANGED <<rd, dec, enc, rt, hdr, adv, disc>>

\* One turn of: for addr in &self.servers { self.sock.send_to(data, addr)?; }
ResSendTo ==
    /\ res.state = "sending"
    /\ \E ok \in BOOLEAN :
          res' = IF ~ok THEN [res EXCEPT !.state = "failed", !.ret = "io"]
                 ELSE [res EXCEPT !.sent = Append(@, [to |-> res.servers[res.i],
                                                      data |-> res.data]),
                                  !.i = @ + 1,
                                  !.state = IF res.i = Len(res.servers)
                                            THEN "receiving" ELSE "sending"]
    /\ UNCHANGED <<rd, dec, enc, rt, hdr, adv, disc>>

\* The receive loop with a deadline that a received datagram does not move.
ResRecvFromMutNoRestart ==
    /\ res.state = "receiving"
    /\ res.recvs < MaxRecv
    /\ \E datagram \in ResDatagrams, delay \in {0, ResTimeout - 1} :
          LET Decoded(a) ==
                  [res EXCEPT !.recvs = @ + 1, !.ip_buf = a.ip_buf,
                              !.clock = @ + delay,
                              !.log = Append(@, [dg |-> datagram,
                                                 at |-> res.clock + delay]),
                              !.state = IF a.result = "panic" THEN "panicked"
                                        ELSE IF a.result = "Ok" /\ a.ip_buf # <<>>
                                        THEN "returned" ELSE "receiving"]
          IN  res' = Decoded(decode_answer(datagram.bytes, res.ip_buf))
    /\ UNCHANGED <<rd, dec, enc, rt, hdr, adv, disc>>

\* One turn of the receive loop that gets a datagram, delay ticks after
\* recv_from was called (at once, or just before the read timeout): recv_buf
\* takes its
\* first DNS_BUFFER_SIZE bytes, and unless the call returns recv_from is called
\* again at once.
ResRecvFrom ==
    /\ res.state = "receiving"
    /\ res.recvs < MaxRecv
    /\ \E datagram \in ResDatagrams, delay \in {0, ResTimeout - 1} :
          LET Decoded(a) ==
                  [res EXCEPT !.recvs = @ + 1, !.ip_buf = a.ip_buf,
                              !.clock = @ + delay, !.rx_at = res.clock + delay,
                              !.log = Append(@, [dg |-> datagram,
                                                 at |-> res.clock + delay]),
                              !.state = IF a.result = "panic" THEN "panicked"
                                        ELSE IF a.result = "Ok" /\ a.ip_buf # <<>>
                                        THEN "returned" ELSE "receiving"]
              recv == IF Len(datagram.bytes) > DNS_BUFFER_SIZE
                      THEN SubSeq(datagram.bytes, 1, DNS_BUFFER_SIZE)
                      ELSE datagram.bytes
          IN  res' = Decoded(decode_answer(recv, res.ip_buf))
    /\ UNCHANGED <<rd, dec, enc, rt, hdr, adv, disc>>

\* recv_from returns Err(TimedOut): nothing arrived for the read timeout set
\* with set_read_timeout.
ResRecvTimeout ==
    /\ res.state = "receiving"
    /\ res' = [res EXCEPT !.state = "failed", !.ret = "TimedOut",
                          !.clock = res.rx_at + ResTimeout]
    /\ UNCHANGED <<rd, dec, enc, rt, hdr, adv, disc>>

NextRes ==
    ResAddServer \/ ResResolveDomain \/ ResSendTo \/ ResRecvFrom \/ ResRecvTimeout

SpecRes == InitRes /\ [][NextRes]_vars

(***************************************************************************)
(* The questions of a packet, read with the MessageDecoder.                *)
(***************************************************************************)
RECURSIVE ReadQuestions(_, _)
ReadQuestions(d, acc) ==
    LET Step(n) ==
            IF n.res = "Ok" THEN ReadQuestions(n.d, Append(acc, n.q))
            ELSE [questions |-> acc, res |-> n.res]
    IN  Step(next_rr(d))

\* data is a query with ID 12345, RD set and the two questions for name.
IsQueryFor(data, name) ==
    LET Asks(ty) == [qname |-> name, qtype |-> ty, qclass |-> 1,
                     prefer_unicast |-> FALSE]
        Questions(r) ==
            r.res = "None" /\ r.questions = <<Asks(Type_A), Asks(Type_AAAA)>>
    IN  /\ Len(data) = HEADER_SIZE + 2 * (NameWireLen(name) + 4)
        /\ HeaderOf(data).id = 12345
        /\ flags_contains(HeaderOf(data).flags, HeaderFlags_RD)
        /\ ~flags_contains(HeaderOf(data).flags, HeaderFlags_QR)
        /\ HeaderOf(data).qdcount = 2
        /\ Questions(ReadQuestions(MessageDecoder_new(data), <<>>))

\* The transmissions so far are one of data to each of the first n servers,
\* in configuration order.
SentToFirst(n) ==
    res.sent = [k \in 1..n |-> [to |-> res.servers[k], data |-> res.data]]

(***************************************************************************)
(* C20: resolve_domain builds one query with ID 12345, RD set and the two  *)
(* questions (name, A, IN), (name, AAAA, IN), sends it once to every       *)
(* configured server in configuration order before the first receive, and  *)
(* transmits nothing more during the call.                                 *)
(***************************************************************************)
C20_QueryOncePerServer ==
    res.state # "none" /\ res.called /\ res.state # "sending" =>
        /\ IsQueryFor(res.data, res.name)
        /\ SentToFirst(Len(res.servers))

\* What holds of every call: once the receive loop is entered the query is
\* as stated and went once to every server; inside the send loop, and after
\* a send_to that failed, it went once to each server before the current one.
ResSentOnce ==
    res.state # "none" /\ res.called =>
        /\ res.state \in {"receiving", "returned"} \/ res.ret = "TimedOut" =>
              IsQueryFor(res.data, res.name) /\ SentToFirst(Len(res.servers))
        /\ res.state = "sending" \/ res.ret = "io" =>
              /\ IsQueryFor(res.data, res.name)
              /\ Len(res.sent) < Len(res.servers)
              /\ SentToFirst(Len(res.sent))
        /\ res.state = "panicked" /\ res.recvs = 0 => res.sent = <<>>

\* Nothing is transmitted from the first receive on.
ResNoRetransmit ==
    [][res.state = "receiving" => res'.sent = res.sent]_vars

\* The call panicked in encode_query: nothing was sent.
ResEncodePanic ==
    /\ res.state = "panicked"
    /\ res.called
    /\ res.recvs = 0
    /\ Len(res.name) = FitLabels + 1

\* Two datagrams without addresses were received after the query went to
\* two servers.
ResReceivedTwice ==
    /\ res.state = "receiving"
    /\ Len(res.servers) = 2
    /\ res.recvs = 2
    /\ Len(res.sent) = 2

(***************************************************************************)
(* What a datagram says, by its construction: the addresses of its A and   *)
(* AAAA records in wire order, whether it is a response, and whether the   *)
(* receive loop has to skip it.                                            *)
(***************************************************************************)
RECURSIVE AddrsOf(_)
AddrsOf(rrs) ==
    IF rrs = <<>> THEN <<>>
    ELSE (IF Head(rrs).rdata.type_ = Type_A
          THEN <<[v |-> 4, octets |-> Head(rrs).rdata.addr]>>
          ELSE IF Head(rrs).rdata.type_ = Type_AAAA
          THEN <<[v |-> 6, octets |-> Head(rrs).rdata.addr]>>
          ELSE <<>>) \o AddrsOf(Tail(rrs))

IsResponse(dg) == flags_contains(dg.h.flags, HeaderFlags_QR)

Skipped(dg) == ~IsResponse(dg) \/ ~dg.wf

Answering(dg) == ~Skipped(dg) /\ AddrsOf(dg.rrs) # <<>>

LastRecv == res.log[Len(res.log)].dg

(***************************************************************************)
(* C21: resolve_domain returns as soon as a received response has at least *)
(* one A or AAAA answer, and returns the addresses of that response's      *)
(* answer section in wire order; records of other types add nothing.       *)
(***************************************************************************)
C21_ReturnsAnswerInWireOrder ==
    res.state # "none" /\ res.log # <<>> =>
        /\ res.state = "returned" <=> Answering(LastRecv)
        /\ res.state = "returned" => res.ip_buf = AddrsOf(LastRecv.rrs)
        /\ \A k \in 1..(Len(res.log) - 1) : ~Answering(res.log[k].dg)

\* What holds: the statement of C21 for the calls in which no datagram that
\* was received before failed to decode after an address record.
ResReturnsClean ==
    res.state # "none" /\ res.log # <<>>
        /\ (\A k \in 1..(Len(res.log) - 1) :
               res.log[k].dg.wf \/ AddrsOf(res.log[k].dg.rrs) = <<>>) =>
        /\ res.state = "returned" <=> Answering(LastRecv)
        /\ res.state = "returned" => res.ip_buf = AddrsOf(LastRecv.rrs)
        /\ \A k \in 1..(Len(res.log) - 1) : ~Answering(res.log[k].dg)

\* A response with a PTR, an AAAA and an A record made the call return.
ResReturnedMixed ==
    /\ res.state = "returned"
    /\ Len(LastRecv.rrs) = 3
    /\ Len(res.ip_buf) = 2

(***************************************************************************)
(* C22: a datagram that is not a response or that fails to decode is       *)
(* skipped: it adds no address to the result and the receive loop goes on. *)
(***************************************************************************)
C22_SkippedContributeNothing ==
    [][res.state = "receiving" /\ res'.recvs = res.recvs + 1
          /\ Skipped(res'.log[Len(res'.log)].dg) =>
              res'.ip_buf = res.ip_buf /\ res'.state = "receiving"]_vars

\* What holds: a datagram that is no response, that is too short for a
\* header, or that a call with an empty ip_buf fails to decode does not end
\* the loop, and one without address records adds nothing.
ResSkippedWithoutAddress ==
    [][res.state = "receiving" /\ res'.recvs = res.recvs + 1
          /\ Skipped(res'.log[Len(res'.log)].dg) =>
              /\ res.ip_buf = <<>> => res'.state = "receiving"
              /\ ~IsResponse(res'.log[Len(res'.log)].dg)
                    \/ AddrsOf(res'.log[Len(res'.log)].dg.rrs) = <<>> =>
                        res'.ip_buf = res.ip_buf]_vars

\* A response cut off after its first record was received and the loop
\* went on.
ResSkippedCut ==
    /\ res.state = "receiving"
    /\ res.log # <<>>
    /\ IsResponse(LastRecv) /\ ~LastRecv.wf
    /\ LastRecv.rrs # <<>>

(***************************************************************************)
(* C23: a response whose ID is not the ID of the query, or whose answers   *)
(* are for another name than the one asked for, adds no address to the     *)
(* result.                                                                 *)
(***************************************************************************)
MatchesQuery(dg, name) ==
    /\ dg.h.id = QUERY_ID
    /\ \A k \in 1..Len(dg.rrs) : dg.rrs[k].name = name

C23_MismatchIgnored ==
    [][res.state = "receiving" /\ res'.recvs = res.recvs + 1
          /\ IsResponse(res'.log[Len(res'.log)].dg)
          /\ ~MatchesQuery(res'.log[Len(res'.log)].dg, res.name) =>
              res'.ip_buf = res.ip_buf]_vars

\* What the code does instead: the addresses of a well-formed response are
\* taken whatever its ID and the owner names of its records are.
ResTakesAnyResponse ==
    [][res.state = "receiving" /\ res'.recvs = res.recvs + 1
          /\ ~Skipped(res'.log[Len(res'.log)].dg) =>
              res'.ip_buf = res.ip_buf \o AddrsOf(res'.log[Len(res'.log)].dg.rrs)]_vars

\* The call for h.local returned the addresses of a response with ID 0 and
\* records of a.
ResReturnedForeign ==
    /\ res.state = "returned"
    /\ res.name = Name_h_local
    /\ LastRecv.h.id = 0
    /\ LastRecv.rrs[1].name = Name_a

(***************************************************************************)
(* C24 as stated: skipped datagrams do not move the deadline, so a call    *)
(* that receives only datagrams that are no responses or are malformed     *)
(* fails with a timeout no later than one timeout after the query was      *)
(* sent.                                                                   *)
(***************************************************************************)
C24_DeadlineNotReset ==
    res.state # "none" /\ res.ret = "TimedOut"
        /\ (\A k \in 1..Len(res.log) : Skipped(res.log[k].dg)) =>
        res.clock <= ResTimeout

\* The time at which the last datagram arrived, or at which the query was
\* sent.
LastArrival == IF res.log = <<>> THEN 0 ELSE res.log[Len(res.log)].at

(***************************************************************************)
(* C24: the timeout is the read timeout of one receive. Every datagram,    *)
(* skipped or not, starts it again: the call fails with a timeout exactly  *)
(* one timeout after the last datagram arrived (after the query was sent,  *)
(* when none arrived), which is less than n + 1 timeouts after the query   *)
(* was sent when n datagrams arrived.                                      *)
(***************************************************************************)
C24_TimeoutPerReceive ==
    res.state # "none" /\ res.ret = "TimedOut" =>
        /\ res.clock = LastArrival + ResTimeout
        /\ res.clock <= Len(res.log) * (ResTimeout - 1) + ResTimeout

\* The call timed out later than one timeout after the query was sent,
\* having received only datagrams that are skipped.
C24_Witness ==
    /\ res.ret = "TimedOut"
    /\ res.log # <<>>
    /\ \A k \in 1..Len(res.log) : Skipped(res.log[k].dg)
    /\ res.clock > ResTimeout

(***************************************************************************)
(* C25: add_server on a resolver created for a multicast server address    *)
(* panics and leaves the server list as it was; with a server of another   *)
(* family than the first server it panics as well; otherwise it appends    *)
(* the server.                                                             *)
(***************************************************************************)
C25_AddServerChecks ==
    res.state # "none" /\ res.last.op = "add_server" /\ ~res.called =>
        IF is_multicast(res.last.before[1].ip)
        THEN res.state = "panicked" /\ res.servers = res.last.before
        ELSE IF res.last.before[1].v4 # res.last.server.v4
        THEN res.state = "panicked"
        ELSE /\ res.state = "idle"
             /\ res.servers = Append(res.last.before, res.last.server)

\* What holds: the family check alone decides, and is_multicast is never
\* set.
ResAddServerFamily ==
    res.state # "none" =>
        /\ ~res.is_multicast
        /\ res.last.op = "add_server" /\ ~res.called =>
              IF res.last.before[1].v4 # res.last.server.v4
              THEN res.state = "panicked" /\ res.servers = res.last.before
              ELSE /\ res.state = "idle"
                   /\ res.servers = Append(res.last.before, res.last.server)

\* A unicast server was added to the resolver made for 224.0.0.251, and
\* the query went to both.
ResAddedToMulticast ==
    /\ is_multicast(res.servers[1].ip)
    /\ Len(res.servers) = 2
    /\ ~is_multicast(res.servers[2].ip)
    /\ Len(res.sent) = 2

\* add_server panicked on a server of the other family.
ResAddServerPanicked ==
    /\ res.state = "panicked"
    /\ res.last.op = "add_server"
    /\ res.last.before[1].v4 # res.last.server.v4

(***************************************************************************)
(* service.rs: Service::from_ptr and ServiceInstance::from_ptr, on the     *)
(* labels of the PTR target.  The result is "Ok" with the value, or the    *)
(* name of the Error.                                                      *)
(***************************************************************************)
transport_of(label) ==
    IF label = Label_tcp THEN "TCP" ELSE IF label = Label_udp THEN "Other"
    ELSE "InvalidValue"

Service_from_ptr(ptrdname) ==
    IF Len(ptrdname) < 3 THEN [result |-> "Eof"]
    ELSE IF transport_of(ptrdname[2]) = "InvalidValue"
    THEN [result |-> "InvalidValue"]
    ELSE [result |-> "Ok",
          val |-> [name |-> ptrdname[1], transport |-> transport_of(ptrdname[2])]]

ServiceInstance_from_ptr(ptrdname) ==
    IF Len(ptrdname) < 4 THEN [result |-> "Eof"]
    ELSE IF transport_of(ptrdname[3]) = "InvalidValue"
    THEN [result |-> "InvalidValue"]
    ELSE [result |-> "Ok",
          val |-> [instance_name |-> ptrdname[1],
                   service |-> [name |-> ptrdname[2],
                                transport |-> transport_of(ptrdname[3])]]]

\* InstanceDetails::from_srv on the decoded fields priority, weight, port,
\* target.
InstanceDetails_from_srv(srv) == [host |-> srv[4], port |-> srv[3]]

(***************************************************************************)
(* service/discovery.rs.  A call is [op, arg, stop_at]: op is              *)
(* "discover_service_types", "discover_instances" (arg the Service) or     *)
(* "load_instance_details" (arg the ServiceInstance); the callback passed  *)
(* in returns Break at its stop_at-th invocation (never when stop_at = 0). *)
(* The state of the closure given to send_query is st = [seen, calls,      *)
(* details, txt]: the keys of the BTreeMap, the values the callback passed *)
(* in was invoked with, and the two Options of load_instance_details.      *)
(***************************************************************************)
Label_services == <<95, 115, 101, 114, 118, 105, 99, 101, 115>>
Label_dns_sd == <<95, 100, 110, 115, 45, 115, 100>>

\* The name the query asks for.
query_domain(call, domain) ==
    CASE call.op = "discover_service_types" ->
             <<Label_services, Label_dns_sd, Label_udp>> \o domain
      [] call.op = "discover_instances" ->
             <<call.arg.name, to_label(call.arg.transport)>> \o domain
      [] call.op = "load_instance_details" ->
             <<call.arg.instance_name, call.arg.service.name,
               to_label(call.arg.service.transport)>> \o domain

query_qtypes(call) ==
    IF call.op = "load_instance_details" THEN <<Type_SRV, Type_TXT>>
    ELSE <<Type_PTR>>

RECURSIVE Questions(_, _, _)
Questions(e, domain, qtypes) ==
    IF qtypes = <<>> THEN e
    ELSE Questions(question(e, [name |-> domain, ty |-> Head(qtypes),
                                class |-> QClass_IN]),
                   domain, Tail(qtypes))

\* discovery::encode_query: [result, data], result "panic" when
\* finish().unwrap() meets Err(Truncated).
discovery_encode_query(buf, domain, qtypes) ==
    LET Bytes(r) ==
            IF r.result = "Ok"
            THEN [result |-> "Ok", data |-> SubSeq(r.buf, 1, r.ret)]
            ELSE [result |-> "panic", data |-> <<>>]
        Header(e) == Bytes(finish(Questions(e, domain, qtypes)))
    IN  Header(set_header(MessageEncoder_new(buf),
                          Header_bytes(Header_set_id(Header_default, QUERY_ID))))

(***************************************************************************)
(* service.rs: TxtRecords::from_txt on the character-strings of a TXT      *)
(* record.  The BTreeMap is the set of its values [lkey, key, tag, v]:     *)
(* lkey the lowercased key, tag "Value" with the bytes v after the first   *)
(* '=' or "NoValue".  A key is taken as UTF-8 when all its bytes are below *)
(* 128 (a byte of 248 or more is in no UTF-8 string).                      *)
(***************************************************************************)
to_ascii_lowercase(key) ==
    [i \in 1..Len(key) |-> IF key[i] \in 65..90 THEN key[i] + 32 ELSE key[i]]

\* entry.splitn(2, |&b| b == b'='): the offset of the first '=', or 0.
RECURSIVE first_eq(_, _)
first_eq(entry, i) ==
    IF i > Len(entry) THEN 0
    ELSE IF entry[i] = 61 THEN i ELSE first_eq(entry, i + 1)

RECURSIVE from_txt_loop(_, _)
from_txt_loop(entries, map) ==
    LET Insert(entry, eq) ==
            LET key == IF eq = 0 THEN entry ELSE SubSeq(entry, 1, eq - 1)
                rec == [lkey |-> to_ascii_lowercase(key), key |-> key,
                        tag |-> IF eq = 0 THEN "NoValue" ELSE "Value",
                        v |-> IF eq = 0 THEN <<>>
                              ELSE SubSeq(entry, eq + 1, Len(entry))]
            IN  IF \E i \in 1..Len(key) : key[i] >= 128 THEN map
                ELSE IF \E r \in map : r.lkey = rec.lkey THEN map
                ELSE map \cup {rec}
    IN  IF entries = <<>> THEN map
        ELSE from_txt_loop(Tail(entries),
                           Insert(Head(entries), first_eq(Head(entries), 1)))

TxtRecords_from_txt(entries) == from_txt_loop(entries, {})

NoDetails == [some |-> FALSE]

\* got is the history of the records passed to the closure.
NewClosure ==
    [seen |-> {}, calls |-> <<>>, details |-> NoDetails, txt |-> NoDetails,
     got |-> <<>>]

\* The callback that was passed in, invoked with key.
Invoke(call, st, key) ==
    [flow |-> IF Len(st.calls) + 1 = call.stop_at THEN "Break" ELSE "Continue",
     st |-> [st EXCEPT !.calls = Append(@, key), !.seen = @ \cup {key}]]

\* match map.entry(key): Vacant invokes the callback and inserts.
EntryMutNoDedup(call, st, r) ==
    IF r.result # "Ok" THEN [flow |-> "Continue", st |-> st]
    ELSE Invoke(call, st, r.val)

Entry(call, st, r) ==
    IF r.result # "Ok" THEN [flow |-> "Continue", st |-> st]
    ELSE IF r.val \in st.seen THEN [flow |-> "Continue", st |-> st]
    ELSE Invoke(call, st, r.val)

\* The closure of the operation, called with a decoded record: its type and
\* its fields.
closure(call, st, type_, fields) ==
    CASE call.op = "discover_service_types" /\ type_ = Type_PTR ->
             Entry(call, st, Service_from_ptr(fields[1]))
      [] call.op = "discover_instances" /\ type_ = Type_PTR ->
             Entry(call, st, ServiceInstance_from_ptr(fields[1]))
      [] call.op = "load_instance_details" /\ type_ = Type_SRV ->
             [flow |-> "Break",
              st |-> [st EXCEPT !.details =
                         [some |-> TRUE, val |-> InstanceDetails_from_srv(fields)]]]
      [] call.op = "load_instance_details" /\ type_ = Type_TXT ->
             [flow |-> "Continue",
              st |-> [st EXCEPT !.txt = [some |-> TRUE,
                                         val |-> TxtRecords_from_txt(fields)]]]
      [] OTHER -> [flow |-> "Continue", st |-> st]

\* for res in dec.iter() of discovery::decode_answer: [result, flow, st].
RECURSIVE DeliverAnswers(_, _, _)
DeliverAnswersMutPastBreak(d, call, st) ==
    LET Flow(n, c) == DeliverAnswers(n.d, call, c.st)
        Enum(n, e) ==
            IF ~e.some THEN DeliverAnswers(n.d, call, st)
            ELSE IF e.c.result = "panic"
            THEN [result |-> "panic", flow |-> "Continue", st |-> st]
            ELSE IF e.c.result # "Ok" THEN DeliverAnswers(n.d, call, st)
            ELSE Flow(n, closure(call,
                                 [st EXCEPT !.got =
                                     Append(@, [type_ |-> n.val.type_,
                                                fields |-> e.c.vals])],
                                 n.val.type_, e.c.vals))
        Step(n) ==
            CASE n.res = "None" -> [result |-> "Ok", flow |-> "Continue", st |-> st]
              [] n.res = "Ok" -> Enum(n, from_rr(n.val))
              [] n.res = "panic" ->
                     [result |-> "panic", flow |-> "Continue", st |-> st]
              [] OTHER -> DeliverAnswers(n.d, call, st)
    IN  Step(next_rr(d))

DeliverAnswers(d, call, st) ==
    LET Flow(n, c) ==
            IF c.flow = "Break"
            THEN [result |-> "Ok", flow |-> "Break", st |-> c.st]
            ELSE DeliverAnswers(n.d, call, c.st)
        Enum(n, e) ==
            IF ~e.some THEN DeliverAnswers(n.d, call, st)
            ELSE IF e.c.result = "panic"
            THEN [result |-> "panic", flow |-> "Continue", st |-> st]
            ELSE IF e.c.result # "Ok" THEN DeliverAnswers(n.d, call, st)
            ELSE Flow(n, closure(call,
                                 [st EXCEPT !.got =
                                     Append(@, [type_ |-> n.val.type_,
                                                fields |-> e.c.vals])],
                                 n.val.type_, e.c.vals))
        Step(n) ==
            CASE n.res = "None" -> [result |-> "Ok", flow |-> "Continue", st |-> st]
              [] n.res = "Ok" -> Enum(n, from_rr(n.val))
              [] n.res = "panic" ->
                     [result |-> "panic", flow |-> "Continue", st |-> st]
              [] OTHER -> DeliverAnswers(n.d, call, st)
    IN  Step(next_rr(d))

\* discovery::decode_answer(recv, callback).
discovery_decode_answer(recv, call, st) ==
    LET Answers(t) ==
            IF t.res # "Ok" THEN [result |-> t.res, flow |-> "Continue", st |-> st]
            ELSE DeliverAnswers(t.d, call, st)
        Decoder(d) ==
            IF d.section = "new_failed"
            THEN [result |-> "Eof", flow |-> "Continue", st |-> st]
            ELSE IF ~flags_contains(HeaderOf(recv).flags, HeaderFlags_QR)
            THEN [result |-> "Ok", flow |-> "Continue", st |-> st]
            ELSE Answers(Transition(d, "Answer"))
    IN  Decoder(MessageDecoder_new(recv))

(***************************************************************************)
(* Specification SpecDisc: a SyncDiscoverer made by new(server, domain)    *)
(* and one call of discover_service_types, discover_instances or           *)
(* load_instance_details that receives up to MaxDiscRecv datagrams.        *)
(* disc is [state, domain, call, data, sent, clock, recvs, log, st, brk,   *)
(* ret, val]: state is "idle" before the call, "send" before a send_to,    *)
(* "recv" inside a recv_from, "returned" after Ok, "failed" after Err (the *)
(* error in ret), "panicked" after a panic; clock is the time since        *)
(* discovery_start, sent the times of the send_to calls that returned Ok,  *)
(* log the datagrams received with the time of their arrival and the       *)
(* number of times the callback had been invoked when decode_answer        *)
(* returned, brk tells that the closure returned Break, val is the         *)
(* InstanceDetails returned.                                               *)
(***************************************************************************)
MaxDiscRecv == 2
\* The read timeout set by set_retransmit_timeout and discovery_timeout, in
\* clock ticks.
RetransmitTimeout == 2
DiscoveryTimeout == 3

Label_ipp == <<95, 105, 112, 112>>

Svc_tcp == [name |-> Label_svc, transport |-> "TCP"]
My_svc_tcp == [instance_name |-> Label_My, service |-> Svc_tcp]

\* The domain local and one of 24 labels of MAX_LEN bytes, with which no
\* query fits send_buf.
DiscDomains ==
    {<<Label_local>>, [i \in 1..24 |-> [j \in 1..MAX_LEN |-> 120]]}

DiscCalls ==
    {[op |-> o.op, arg |-> o.arg, stop_at |-> n] :
        o \in {[op |-> "discover_service_types", arg |-> [none |-> TRUE]],
               [op |-> "discover_instances", arg |-> Svc_tcp],
               [op |-> "load_instance_details", arg |-> My_svc_tcp]},
        n \in 0..2}

Ans(rdata) == [name |-> Name_a, class |-> Class_IN, ttl |-> TTL, rdata |-> rdata]

Ptr(target) == Ans([type_ |-> Type_PTR, ptrdname |-> target])

Srv(host, port) ==
    Ans([type_ |-> Type_SRV, priority |-> 0, weight |-> 0, port |-> port,
         target |-> host])

Txt(entries) == Ans([type_ |-> Type_TXT, entries |-> entries])

\* A record of a type that is not supported, and an A record with two
\* bytes of RDATA: name, type, class, TTL, RDLENGTH, RDATA.
RR_unsupported == <<0, 0, 99, 0, 1, 0, 0, 0, 120, 0, 2, 1, 2>>
RR_A_short == <<0, 0, 1, 0, 1, 0, 0, 0, 120, 0, 2, 1, 2>>

\* The answers of DiscOwn: for each operation one whose owner is the name
\* that the operation asks for in the domain local.
Own_services ==
    [Ptr(<<Label_ipp, Label_tcp, Label_local>>)
        EXCEPT !.name = <<Label_services, Label_dns_sd, Label_udp, Label_local>>]
Own_instance ==
    [Ptr(<<Label_x, Label_svc, Label_tcp, Label_local>>)
        EXCEPT !.name = <<Label_svc, Label_tcp, Label_local>>]
Own_details ==
    [Srv(Name_x_local, 443)
        EXCEPT !.name = <<Label_My, Label_svc, Label_tcp, Label_local>>]

\* A response to the query, with its ID: the three answers, with the
\* unsupported record and the short A record after the first, then a PTR
\* record in the Authority section and an SRV record in the Additional
\* section.
DiscOwn ==
    [bytes |-> Header_bytes([ResponseHeaderOf(QUERY_ID) EXCEPT
                                !.ancount = 5, !.nscount = 1, !.arcount = 1])
                   \o RRBytes(Own_services) \o RR_unsupported \o RR_A_short
                   \o RRBytes(Own_instance) \o RRBytes(Own_details)
                   \o RRBytes(Ptr(<<Label_My, Label_udp, Label_local>>))
                   \o RRBytes(Srv(Name_g_local, 7)),
     h |-> ResponseHeaderOf(QUERY_ID),
     rrs |-> <<Own_services, Own_instance, Own_details>>, wf |-> TRUE]

\* A response whose second answer is the first byte of a pointer, at the
\* end of the datagram.
DiscCutPointer ==
    ResDatagram(ResponseHeaderOf(QUERY_ID),
                <<Ptr(<<Label_x, Label_udp, Label_local>>)>>, 1, <<192>>)

\* Responses with PTR, SRV and TXT answers, some twice, one cut short, one
\* that ends with the first byte of a pointer; a query; a short packet.
DiscDatagrams ==
    {ResDatagram(ResponseHeaderOf(0),
                 <<Ptr(<<Label_svc, Label_tcp, Label_local>>),
                   Ptr(<<Label_My, Label_svc, Label_tcp, Label_local>>),
                   Ptr(<<Label_svc, Label_tcp, Label_local>>),
                   Ptr(<<Label_My, Label_svc, Label_tcp, Label_local>>),
                   Ptr(<<Label_ipp, Label_udp, Label_local>>),
                   Ptr(<<Label_h, Label_svc, Label_tcp, Label_local>>)>>,
                 0, <<>>),
     ResDatagram(ResponseHeaderOf(0),
                 <<Ptr(<<Label_ipp, Label_udp, Label_local>>),
                   Ptr(<<Label_h, Label_svc, Label_tcp, Label_local>>),
                   Txt(<<<<107, 61, 118>>>>),
                   Srv(Name_h_local, 8080), Srv(Name_g_local, 9090)>>,
                 0, <<>>),
     ResDatagram(ResponseHeaderOf(QUERY_ID),
                 <<Txt(<<<<107>>>>), Ans_A, Ptr(<<Label_svc, Label_x>>),
                   Ptr(<<Label_h, Label_svc, Label_local, Label_local>>)>>,
                 0, <<>>),
     ResDatagram(ResponseHeaderOf(0),
                 <<Ptr(<<Label_svc, Label_udp, Label_local>>),
                   Ptr(<<Label_g, Label_svc, Label_tcp, Label_local>>)>>,
                 1, <<1, 97>>),
     ResDatagram(QueryHeader, <<Ptr(<<Label_x, Label_tcp, Label_local>>)>>, 0, <<>>),
     DiscOwn, DiscCutPointer, ResRaw(<<1, 2, 3>>)}

NoCall == [op |-> "none", arg |-> [none |-> TRUE], stop_at |-> 0]

InitDisc ==
    /\ rd = NoRd
    /\ dec = NoDec
    /\ enc = NoEnc
    /\ rt = NoRt
    /\ hdr = NoHdr
    /\ adv = NoAdv
    /\ res = NoRes
    /\ \E domain \in DiscDomains :
          disc = [state |-> "idle", domain |-> domain, call |-> NoCall,
                  data |-> <<>>, sent |-> <<>>, clock |-> 0, recvs |-> 0,
                  log |-> <<>>, st |-> NewClosure, brk |-> FALSE,
                  ret |-> "none", val |-> NoDetails]

\* What the operation returns once send_query has returned Ok(()).
Finished(d) ==
    IF d.call.op # "load_instance_details"
    THEN [d EXCEPT !.state = "returned", !.ret = "Ok"]
    ELSE IF ~d.st.details.some
    THEN [d EXCEPT !.state = "failed", !.ret = "TimedOut"]
    ELSE [d EXCEPT !.state = "returned", !.ret = "Ok",
                   !.val = [some |-> TRUE,
                            val |-> [host |-> d.st.details.val.host,
                                     port |-> d.st.details.val.port,
                                     txt |-> IF d.st.txt.some
                                             THEN d.st.txt.val ELSE {}]]]

\* The head of the receive loop: the deadline check before recv_from.
LoopHead(d) ==
    IF d.clock >= DiscoveryTimeout THEN Finished(d) ELSE [d EXCEPT !.state = "recv"]

\* The operation up to the first send_to: the name, encode_query,
\* discovery_start.
DiscCall ==
    /\ disc.state = "idle"
    /\ \E call \in DiscCalls :
          LET Built(q) ==
                  IF q.result = "panic"
                  THEN [disc EXCEPT !.state = "panicked", !.call = call]
                  ELSE [disc EXCEPT !.state = "send", !.call = call,
                                    !.data = q.data]
          IN  disc' = Built(discovery_encode_query(
                                [i \in 1..MDNS_BUFFER_SIZE |-> 0],
                                query_domain(call, disc.domain),
                                query_qtypes(call)))
    /\ UNCHANGED <<rd, dec, enc, rt, hdr, adv, res>>

\* self.sock.send_to(data, self.server)?, then the head of the receive loop.
DiscSendTo ==
    /\ disc.state = "send"
    /\ \E ok \in BOOLEAN :
          disc' = IF ~ok THEN [disc EXCEPT !.state = "failed", !.ret = "io"]
                  ELSE LoopHead([disc EXCEPT !.sent = Append(@, disc.clock)])
    /\ UNCHANGED <<rd, dec, enc, rt, hdr, adv, res>>

\* recv_from returns a datagram, delay ticks after it was called (at once,
\* or just before the read timeout); decode_answer, then the head of the
\* loop.
DiscRecvFrom ==
    /\ disc.state = "recv"
    /\ disc.recvs < MaxDiscRecv
    /\ \E datagram \in DiscDatagrams, delay \in {0, RetransmitTimeout - 1} :
          LET Got(d, a) ==
                  IF a.result = "panic"
                  THEN [d EXCEPT !.state = "panicked", !.st = a.st]
                  ELSE IF a.result = "Ok" /\ a.flow = "Break"
                  THEN Finished([d EXCEPT !.st = a.st, !.brk = TRUE])
                  ELSE LoopHead([d EXCEPT !.st = a.st])
              recv == IF Len(datagram.bytes) > MDNS_BUFFER_SIZE
                      THEN SubSeq(datagram.bytes, 1, MDNS_BUFFER_SIZE)
                      ELSE datagram.bytes
              Recv(a) ==
                  Got([disc EXCEPT !.recvs = @ + 1,
                                   !.clock = @ + delay,
                                   !.log = Append(@, [dg |-> datagram,
                                                      at |-> disc.clock + delay,
                                                      n |-> Len(a.st.calls)])],
                      a)
          IN  disc' = Recv(discovery_decode_answer(recv, disc.call, disc.st))
    /\ UNCHANGED <<rd, dec, enc, rt, hdr, adv, res>>

\* recv_from returns Err: WouldBlock or TimedOut after the read timeout
\* (continue 'retransmit), or another error at some time before.
DiscRecvErr ==
    /\ disc.state = "recv"
    /\ \E timeout \in BOOLEAN :
          disc' = IF timeout
                  THEN [disc EXCEPT !.state = "send",
                                    !.clock = @ + RetransmitTimeout]
                  ELSE [disc EXCEPT !.state = "failed", !.ret = "io"]
    /\ UNCHANGED <<rd, dec, enc, rt, hdr, adv, res>>

NextDisc == DiscCall \/ DiscSendTo \/ DiscRecvFrom \/ DiscRecvErr

SpecDisc == InitDisc /\ [][NextDisc]_vars

(***************************************************************************)
(* C26: send_query retransmits after a receive timeout only if the         *)
(* discovery deadline has not elapsed by then, and otherwise returns       *)
(* without transmitting: no datagram is sent at or after the deadline.     *)
(***************************************************************************)
C26_NoSendAfterDeadline ==
    disc.state # "none" =>
        \A k \in 1..Len(disc.sent) : disc.sent[k] < DiscoveryTimeout

\* What holds: a retransmission follows a receive that began before the
\* deadline and timed out, so it is made less than one retransmit timeout
\* after the deadline; after one made at or after the deadline the call
\* ends without another receive.
DiscRetransmitsOnceLate ==
    disc.state # "none" =>
        /\ \A k \in 2..Len(disc.sent) :
              disc.sent[k] - RetransmitTimeout < DiscoveryTimeout
        /\ \A k \in 1..(Len(disc.sent) - 1) : disc.sent[k] < DiscoveryTimeout
        /\ disc.sent # <<>> /\ disc.sent[Len(disc.sent)] >= DiscoveryTimeout =>
              /\ disc.state \in {"returned", "failed"}
              /\ \A j \in 1..Len(disc.log) :
                    disc.log[j].at < disc.sent[Len(disc.sent)]

\* The query was transmitted after the deadline and the call returned Ok.
DiscSentLate ==
    /\ disc.state = "returned"
    /\ disc.sent[Len(disc.sent)] >= DiscoveryTimeout

\* A call of discover_service_types or discover_instances whose callback
\* never stops and in which no socket operation failed.
DiscBrowsing ==
    /\ disc.state \notin {"none", "idle"}
    /\ disc.call.op \in {"discover_service_types", "discover_instances"}
    /\ disc.call.stop_at = 0
    /\ disc.ret # "io"

(***************************************************************************)
(* C27: without a socket error and with a callback that never stops,       *)
(* discover_service_types and discover_instances end with Ok(()) no later  *)
(* than the discovery timeout plus one retransmit timeout after the first  *)
(* transmission, whether datagrams arrive or not.                          *)
(***************************************************************************)
C27_ReturnsOkInTime ==
    DiscBrowsing =>
        /\ disc.state \in {"send", "recv", "returned"}
        /\ disc.clock <= DiscoveryTimeout + RetransmitTimeout
        /\ disc.state = "returned" => disc.ret = "Ok"

\* The call has received the datagram that ends inside a pointer.
DiscGotCutPointer == \E k \in 1..Len(disc.log) : disc.log[k].dg = DiscCutPointer

\* What holds: the statement of C27 for the calls in which encode_query
\* returns and no datagram ends inside a pointer; a call whose query does
\* not fit send_buf panics before it transmits, and a call panics in
\* read_domain_name when it receives a datagram that ends inside a pointer.
DiscBrowsingEnds ==
    /\ DiscBrowsing /\ disc.domain = <<Label_local>> /\ ~DiscGotCutPointer =>
          /\ disc.state \in {"send", "recv", "returned"}
          /\ disc.clock < DiscoveryTimeout + RetransmitTimeout
          /\ disc.state = "recv" => disc.clock < DiscoveryTimeout
          /\ disc.state = "returned" =>
                disc.ret = "Ok" /\ disc.clock >= DiscoveryTimeout
    /\ disc.state = "panicked" =>
          \/ disc.domain # <<Label_local>> /\ disc.sent = <<>> /\ disc.log = <<>>
          \/ disc.log # <<>> /\ disc.log[Len(disc.log)].dg = DiscCutPointer

\* A call ends: every step of it makes this number smaller, and the number
\* is never negative.  The time left to the last moment a receive can end
\* counts most, then the datagrams left to arrive, then the place in the
\* loop.
DiscMeasure(d) ==
    (DiscoveryTimeout + RetransmitTimeout - d.clock) * 4 * (MaxDiscRecv + 2)
        + (MaxDiscRecv - d.recvs) * 4
        + (CASE d.state = "idle" -> 3 [] d.state = "send" -> 2
             [] d.state = "recv" -> 1 [] OTHER -> 0)

DiscTerminates ==
    [][disc.state # "none" =>
          DiscMeasure(disc') < DiscMeasure(disc) /\ DiscMeasure(disc') >= 0]_vars

\* S6: no datagram arrived and the call returned Ok without a callback.
DiscReturnedSilent ==
    /\ DiscBrowsing
    /\ disc.state = "returned"
    /\ disc.log = <<>>
    /\ disc.st.calls = <<>>

\* MaxDiscRecv datagrams arrived, each at once, and the call went on.
DiscFlooded ==
    /\ DiscBrowsing
    /\ disc.recvs = MaxDiscRecv
    /\ disc.clock = 0

\* A call of discover_service_types or discover_instances.
DiscDiscovering ==
    /\ disc.state \notin {"none", "idle"}
    /\ disc.call.op \in {"discover_service_types", "discover_instances"}

\* The callback has returned Break: it does so at its stop_at-th invocation.
DiscStopped ==
    DiscDiscovering /\ disc.call.stop_at > 0
        /\ Len(disc.st.calls) >= disc.call.stop_at

(***************************************************************************)
(* C28: when the callback returns Break the operation returns Ok at once:  *)
(* the callback is not invoked for the records that follow in the datagram *)
(* nor for later datagrams, and nothing more is sent or received.          *)
(***************************************************************************)
C28_StopEndsCall ==
    DiscStopped =>
        /\ disc.state = "returned" /\ disc.ret = "Ok" /\ disc.brk
        /\ Len(disc.st.calls) = disc.call.stop_at
        /\ \A k \in 1..(Len(disc.log) - 1) : disc.log[k].n < disc.call.stop_at
        /\ disc.clock = disc.log[Len(disc.log)].at
        /\ \A k \in 1..Len(disc.sent) : disc.sent[k] <= disc.clock

\* No step is taken by a call that has returned, failed or panicked.
DiscEndIsFinal ==
    [][disc.state \notin {"returned", "failed", "panicked"}]_vars

\* The callback stopped at the first of two services that the datagram
\* named, before the deadline.
C28_Witness ==
    /\ DiscStopped
    /\ disc.call.stop_at = 1
    /\ Len(disc.log) = 1
    /\ Len(disc.log[1].dg.rrs) = 6
    /\ disc.clock < DiscoveryTimeout

(***************************************************************************)
(* What the datagrams received name, by their construction: the services   *)
(* (instances) that the PTR answers of the responses point to, each once,  *)
(* in the order of arrival.  A target names a service when it has a name,  *)
(* a transport _tcp or _udp and a domain; an instance has its name before  *)
(* those.                                                                  *)
(***************************************************************************)
Named(op, target) ==
    LET At(k) ==
            IF Len(target) > k /\ target[k] \in {Label_tcp, Label_udp}
            THEN {[name |-> target[k - 1],
                   transport |-> IF target[k] = Label_tcp THEN "TCP" ELSE "Other"]}
            ELSE {}
    IN  IF op = "discover_service_types" THEN At(2)
        ELSE {[instance_name |-> target[1], service |-> s] : s \in At(3)}

RECURSIVE NamedIn(_, _, _)
NamedIn(op, rrs, acc) ==
    LET Add(new) ==
            IF new = {} \/ (\E k \in 1..Len(acc) : acc[k] \in new) THEN acc
            ELSE Append(acc, CHOOSE x \in new : TRUE)
    IN  IF rrs = <<>> THEN acc
        ELSE IF Head(rrs).rdata.type_ # Type_PTR THEN NamedIn(op, Tail(rrs), acc)
        ELSE NamedIn(op, Tail(rrs), Add(Named(op, Head(rrs).rdata.ptrdname)))

RECURSIVE NamedInLog(_, _, _)
NamedInLog(op, log, acc) ==
    IF log = <<>> THEN acc
    ELSE IF ~IsResponse(Head(log).dg) THEN NamedInLog(op, Tail(log), acc)
    ELSE NamedInLog(op, Tail(log), NamedIn(op, Head(log).dg.rrs, acc))

(***************************************************************************)
(* C29: within one call of discover_service_types (discover_instances)     *)
(* the callback is invoked at most once for each distinct service          *)
(* (instance), however often it is received, and it is invoked for every   *)
(* distinct one decoded from a PTR answer before the call ends: the        *)
(* invocations are the distinct ones named so far, in the order of         *)
(* arrival, up to the one at which the callback stopped.                   *)
(***************************************************************************)
C29_OncePerDistinct ==
    DiscDiscovering =>
        LET named == NamedInLog(disc.call.op, disc.log, <<>>)
            upto == IF disc.call.stop_at > 0 /\ Len(named) > disc.call.stop_at
                    THEN disc.call.stop_at ELSE Len(named)
        IN  /\ disc.st.calls = SubSeq(named, 1, upto)
            /\ \A j, k \in 1..Len(disc.st.calls) :
                  disc.st.calls[j] = disc.st.calls[k] => j = k

\* Two datagrams named the same two services (instances), one of them
\* twice in one datagram, and the callback was invoked twice.
C29_Witness ==
    /\ DiscDiscovering
    /\ disc.call.stop_at = 0
    /\ Len(disc.log) = 2
    /\ Len(disc.log[1].dg.rrs) = 6
    /\ Len(disc.log[2].dg.rrs) = 5
    /\ Len(disc.st.calls) = 2

\* The SRV answers of the responses received, by their construction, each
\* with the time of its arrival.
RECURSIVE SrvIn(_)
SrvIn(log) ==
    IF log = <<>> THEN <<>>
    ELSE (IF ~IsResponse(Head(log).dg) THEN <<>>
          ELSE [k \in 1..Len(SelectSeq(Head(log).dg.rrs,
                                       LAMBDA rr : rr.rdata.type_ = Type_SRV)) |->
                   [at |-> Head(log).at,
                    srv |-> SelectSeq(Head(log).dg.rrs,
                                      LAMBDA rr : rr.rdata.type_ = Type_SRV)[k].rdata]])
         \o SrvIn(Tail(log))

\* A call of load_instance_details in which no socket operation failed.
DiscLoading ==
    /\ disc.state \notin {"none", "idle"}
    /\ disc.call.op = "load_instance_details"
    /\ disc.ret # "io"

\* The call returned Ok with the host and port of srv.
ReturnedDetails(srv) ==
    /\ disc.state = "returned" /\ disc.ret = "Ok"
    /\ disc.val.some
    /\ disc.val.val.host = srv.target
    /\ disc.val.val.port = srv.port

(***************************************************************************)
(* C30: load_instance_details returns Ok with the host and port of the     *)
(* first SRV answer if an SRV answer is decoded before the discovery       *)
(* deadline (later SRV answers are not used); otherwise it returns         *)
(* TimedOut, also when TXT answers were received.                          *)
(***************************************************************************)
C30_FirstSrvOrTimedOut ==
    DiscLoading =>
        LET srvs == SrvIn(disc.log)
        IN  IF srvs # <<>> /\ srvs[1].at < DiscoveryTimeout
            THEN ReturnedDetails(srvs[1].srv)
            ELSE \/ disc.state \in {"send", "recv"}
                 \/ disc.state = "failed" /\ disc.ret = "TimedOut"

\* What holds when encode_query returns and no datagram ends inside a
\* pointer: the call returns Ok with the first SRV answer as soon as a
\* response has one, also when that response arrives in the last receive,
\* which can end after the deadline; without one it goes on until it
\* returns TimedOut.
DiscDetailsFirstSrv ==
    DiscLoading /\ disc.domain = <<Label_local>> /\ ~DiscGotCutPointer =>
        LET srvs == SrvIn(disc.log)
        IN  IF srvs # <<>>
            THEN /\ ReturnedDetails(srvs[1].srv)
                 /\ srvs[1].at < DiscoveryTimeout + RetransmitTimeout
                 /\ srvs[1].at = disc.clock
            ELSE \/ disc.state \in {"send", "recv"}
                 \/ /\ disc.state = "failed" /\ disc.ret = "TimedOut"
                    /\ disc.clock >= DiscoveryTimeout

\* The call returned the first of two SRV answers.
DiscFirstOfTwoSrv ==
    /\ DiscLoading
    /\ disc.state = "returned"
    /\ Len(SrvIn(disc.log)) = 2
    /\ disc.val.val.port = 8080

\* The call returned TimedOut after a TXT answer.
DiscTimedOutWithTxt ==
    /\ DiscLoading
    /\ disc.ret = "TimedOut"
    /\ disc.st.txt.some

\* The call returned Ok with an SRV answer that arrived after the deadline.
DiscDetailsLate ==
    /\ DiscLoading
    /\ disc.state = "returned"
    /\ disc.clock >= DiscoveryTimeout

\* The TXT answers delivered to the closure of load_instance_details, by the
\* construction of the responses received: those before the first SRV
\* answer, at which the call ends.
RECURSIVE Delivered(_)
Delivered(rrs) ==
    IF rrs = <<>> \/ Head(rrs).rdata.type_ = Type_SRV THEN <<>>
    ELSE <<Head(rrs)>> \o Delivered(Tail(rrs))

RECURSIVE AnswersIn(_)
AnswersIn(log) ==
    IF log = <<>> THEN <<>>
    ELSE (IF IsResponse(Head(log).dg) THEN Head(log).dg.rrs ELSE <<>>)
         \o AnswersIn(Tail(log))

TxtDelivered ==
    SelectSeq(Delivered(AnswersIn(disc.log)), LAMBDA rr : rr.rdata.type_ = Type_TXT)

(***************************************************************************)
(* C31: the TXT records that load_instance_details returns are those of    *)
(* the first TXT answer delivered before the call ended.                   *)
(***************************************************************************)
C31_FirstTxt ==
    DiscLoading /\ disc.state = "returned" /\ TxtDelivered # <<>> =>
        disc.val.val.txt = TxtRecords_from_txt(TxtDelivered[1].rdata.entries)

\* What holds: every TXT answer replaces the one before, so the call
\* returns the records of the last TXT answer delivered before the first
\* SRV answer, and none when there was no TXT answer before it.
DiscLastTxt ==
    DiscLoading /\ disc.state = "returned" =>
        disc.val.val.txt =
            IF TxtDelivered = <<>> THEN {}
            ELSE TxtRecords_from_txt(
                     TxtDelivered[Len(TxtDelivered)].rdata.entries)

\* Two TXT answers were delivered and the call returned the second.
DiscReturnedSecondTxt ==
    /\ DiscLoading
    /\ disc.state = "returned"
    /\ Len(TxtDelivered) = 2
    /\ disc.val.val.txt = {[lkey |-> <<107>>, key |-> <<107>>, tag |-> "Value",
                            v |-> <<118>>]}

(***************************************************************************)
(* name.rs: Display and FromStr of Label, FromStr of DomainName and the    *)
(* ways to build a DomainName.  A string is the sequence of its UTF-8      *)
(* bytes.                                                                  *)
(***************************************************************************)
\* The lower-case hexadecimal digit of n.
HexDigit(n) == IF n < 10 THEN 48 + n ELSE 87 + n

\* u8::escape_ascii: \t, \r, \n, \', \", \\, the printable bytes 0x20 to
\* 0x7e as they are, and \xNN for every other byte.
escape_byte(b) ==
    IF b = 9 THEN <<92, 116>>
    ELSE IF b = 13 THEN <<92, 114>>
    ELSE IF b = 10 THEN <<92, 110>>
    ELSE IF b = 39 THEN <<92, 39>>
    ELSE IF b = 34 THEN <<92, 34>>
    ELSE IF b = 92 THEN <<92, 92>>
    ELSE IF b >= 32 /\ b <= 126 THEN <<b>>
    ELSE <<92, 120, HexDigit(b \div 16), HexDigit(b % 16)>>

RECURSIVE escape_ascii(_)
escape_ascii(bytes) ==
    IF bytes = <<>> THEN <<>>
    ELSE escape_byte(Head(bytes)) \o escape_ascii(Tail(bytes))

\* impl Display for Label: self.as_bytes().escape_ascii().fmt(f).
Label_fmt(label) == escape_ascii(label)

\* impl FromStr for Label: Self::try_new(s).
Label_from_str(s) == try_new(s)

\* str::split on the byte sep.
RECURSIVE split(_, _)
split(s, sep) ==
    IF \A i \in 1..Len(s) : s[i] # sep THEN <<s>>
    ELSE LET i == CHOOSE k \in 1..Len(s) :
                      s[k] = sep /\ \A j \in 1..(k - 1) : s[j] # sep
         IN  <<SubSeq(s, 1, i - 1)>> \o split(SubSeq(s, i + 1, Len(s)), sep)

\* str::split_terminator: as split, without the last piece when it is empty.
split_terminator(s, sep) ==
    LET Kept(p) == IF p[Len(p)] = <<>> THEN SubSeq(p, 1, Len(p) - 1) ELSE p
    IN  Kept(split(s, sep))

push_label(name, label) == Append(name, label)

extend(name, iter) == name \o iter

from_iter(iter) == iter

\* The loop of DomainName::from_str: name.labels.push(label.parse()?).
RECURSIVE parse_labels(_, _)
parse_labels(pieces, name) ==
    IF pieces = <<>> THEN [ok |-> TRUE, val |-> name]
    ELSE LET Pushed(l) ==
                 IF ~l.ok THEN l
                 ELSE parse_labels(Tail(pieces), push_label(name, l.val))
         IN  Pushed(Label_from_str(Head(pieces)))

DomainName_from_str(s) ==
    IF s = <<46>> THEN [ok |-> TRUE, val |-> ROOT]
    ELSE parse_labels(split_terminator(s, 46), <<>>)

(***************************************************************************)
(* Specification SpecLabel: the operations of name.rs on labels and names, *)
(* and read_domain_name on buffers with long labels and with pointers.     *)
(* rt holds op, the input, the stage ("given", "shown", "built", "done"),  *)
(* the string a label was shown as, the outcome (result, vals) and, for    *)
(* read_domain_name, the final loop state st.                              *)
(***************************************************************************)
MaxLabelLen == 65
MaxNameLabels == 4
MaxPtrBuf == 6

Fill(n, b) == [i \in 1..n |-> b]

LabLens == {0, 1, 2, MAX_LEN - 1, MAX_LEN} \cup ((MAX_LEN + 1)..MaxLabelLen)

\* Byte strings: a letter, NUL, line feed, backslash, the dot, a quote,
\* DEL and a byte above 127, repeated, and two mixed ones.
LabBytes ==
    {Fill(n, b) : n \in LabLens, b \in {97, 0, 10, 92, 46, 39, 127, 200}}
    \cup {<<99, 111, 109>>, <<97, 0, 98>>}

RECURSIVE Repeat(_, _)
Repeat(s, n) == IF n = 0 THEN <<>> ELSE s \o Repeat(s, n - 1)

\* Strings: ASCII only, and the two-byte character U+00E9 repeated.
LabStrings ==
    {Fill(n, b) : n \in LabLens, b \in {97, 0, 92}}
    \cup {Repeat(<<195, 169>>, n) : n \in {1, 31, 32}}

LabLabels == {l \in LabBytes : try_new(l).ok}

\* Names as strings: ".", "", "..", ".com", "com.", "a.b", "a..b", a label
\* too long, and up to MaxNameLabels labels of 63 bytes.
LabNameStrings ==
    {<<46>>, <<>>, <<46, 46>>, <<46, 99, 111, 109>>, <<99, 111, 109, 46>>,
     <<97, 46, 98>>, <<97, 46, 46, 98>>, <<97, 46>> \o Fill(MAX_LEN + 1, 120)}
    \cup {Repeat(Fill(MAX_LEN, 120) \o <<46>>, n) : n \in 1..MaxNameLabels}

BuildLabels == {<<97>>, Fill(MAX_LEN, 120)}

\* Buffers for read_domain_name: one label under every length byte up to
\* MaxLabelLen, whole and cut short; up to MaxNameLabels labels of 63
\* bytes, read from the start and through a pointer behind them; and every
\* buffer of at most MaxPtrBuf bytes over a terminator, a length of one and
\* a pointer byte, read from every offset.
LabBuffers ==
    {[buf |-> <<n>> \o Fill(n, 97) \o <<0>>, pos |-> 0] : n \in 0..MaxLabelLen}
    \cup {[buf |-> <<n>> \o Fill(n - 1, 97), pos |-> 0] : n \in 1..MaxLabelLen}
    \cup {[buf |-> Repeat(<<MAX_LEN>> \o Fill(MAX_LEN, 120), n) \o <<0>>,
           pos |-> 0] : n \in 1..MaxNameLabels}
    \cup {[buf |-> Repeat(<<MAX_LEN>> \o Fill(MAX_LEN, 120), MaxNameLabels)
                   \o <<0, 192, 0>>,
           pos |-> MaxNameLabels * (MAX_LEN + 1) + 1]}
    \cup {[buf |-> b, pos |-> p] :
            b \in SeqsUpTo({0, 1, 192}, MaxPtrBuf), p \in 0..MaxPtrBuf}

LabStart(op, input) ==
    [op |-> op, input |-> input, stage |-> "given", bytes |-> <<>>,
     result |-> "none", vals |-> <<>>, st |-> NoRd]

InitLabel ==
    /\ rd = NoRd
    /\ dec = NoDec
    /\ enc = NoEnc
    /\ hdr = NoHdr
    /\ adv = NoAdv
    /\ res = NoRes
    /\ disc = NoDisc
    /\ \/ \E b \in LabBytes : rt = LabStart("try_new", b)
       \/ \E s \in LabStrings : rt = LabStart("from_str", s)
       \/ \E l \in LabLabels : rt = LabStart("display", l)
       \/ \E s \in LabNameStrings : rt = LabStart("name_from_str", s)
       \/ \E i \in SeqsUpTo(BuildLabels, 2) : rt = LabStart("build", i)
       \/ \E r \in LabBuffers :
            r.pos <= Len(r.buf) /\ rt = LabStart("read_name", r)

LabDone(o) ==
    [rt EXCEPT !.stage = "done",
               !.result = IF o.ok THEN "Ok" ELSE o.err,
               !.vals = IF o.ok THEN o.val ELSE <<>>]

LabTryNew ==
    /\ rt.op = "try_new"
    /\ rt.stage = "given"
    /\ rt' = LabDone(try_new(rt.input))
    /\ UNCHANGED <<rd, dec, enc, hdr, adv, res, disc>>

LabFromStr ==
    /\ rt.op = "from_str"
    /\ rt.stage = "given"
    /\ rt' = LabDone(Label_from_str(rt.input))
    /\ UNCHANGED <<rd, dec, enc, hdr, adv, res, disc>>

\* label.to_string()
LabDisplay ==
    /\ rt.op = "display"
    /\ rt.stage = "given"
    /\ rt' = [rt EXCEPT !.stage = "shown", !.bytes = Label_fmt(rt.input)]
    /\ UNCHANGED <<rd, dec, enc, hdr, adv, res, disc>>

\* string.parse::<Label>()
LabParse ==
    /\ rt.op = "display"
    /\ rt.stage = "shown"
    /\ rt' = LabDone(Label_from_str(rt.bytes))
    /\ UNCHANGED <<rd, dec, enc, hdr, adv, res, disc>>

LabNameFromStr ==
    /\ rt.op = "name_from_str"
    /\ rt.stage = "given"
    /\ rt' = LabDone(DomainName_from_str(rt.input))
    /\ UNCHANGED <<rd, dec, enc, hdr, adv, res, disc>>

LabFromIter ==
    /\ rt.op = "build"
    /\ rt.stage = "given"
    /\ rt' = [rt EXCEPT !.stage = "built", !.result = "Ok",
                        !.vals = from_iter(rt.input)]
    /\ UNCHANGED <<rd, dec, enc, hdr, adv, res, disc>>

LabPushLabel ==
    /\ rt.op = "build"
    /\ rt.stage = "built"
    /\ Len(rt.vals) < MaxNameLabels
    /\ \E l \in BuildLabels : rt' = [rt EXCEPT !.vals = push_label(@, l)]
    /\ UNCHANGED <<rd, dec, enc, hdr, adv, res, disc>>

LabExtend ==
    /\ rt.op = "build"
    /\ rt.stage = "built"
    /\ \E i \in SeqsUpTo(BuildLabels, 2) :
         /\ Len(rt.vals) + Len(i) <= MaxNameLabels
         /\ rt' = [rt EXCEPT !.vals = extend(@, i)]
    /\ UNCHANGED <<rd, dec, enc, hdr, adv, res, disc>>

LabReadName ==
    /\ rt.op = "read_name"
    /\ rt.stage = "given"
    /\ LET Read(st) ==
               [rt EXCEPT !.stage = "done", !.result = st.result,
                          !.vals = st.domain_name, !.st = st]
       IN  rt' = Read(read_domain_name([full_buf |-> rt.input.buf,
                                        pos |-> rt.input.pos]))
    /\ UNCHANGED <<rd, dec, enc, hdr, adv, res, disc>>

NextLabel ==
    \/ LabTryNew
    \/ LabFromStr
    \/ LabDisplay
    \/ LabParse
    \/ LabNameFromStr
    \/ LabFromIter
    \/ LabPushLabel
    \/ LabExtend
    \/ LabReadName

SpecLabel == InitLabel /\ [][NextLabel]_vars

\* The labels of a name.
LabelsBounded(name) == \A i \in 1..Len(name) : Len(name[i]) \in 1..63

LabLengthByte64 ==
    (rt.op = "read_name" /\ rt.stage = "done" /\ rt.input.pos = 0
     /\ rt.input.buf # <<>> /\ rt.input.buf[1] \in 64..MaxLabelLen) =>
        rt.result = "InvalidValue"

(***************************************************************************)
(* C33: the encoded length of every DomainName, the sum over its labels of *)
(* 1 + the label's length plus 1 for the terminating zero, is at most 255  *)
(* bytes, whether the name was parsed from a string, built with from_iter, *)
(* push_label and extend, or returned by read_domain_name.                 *)
(***************************************************************************)
C33_WireLenBounded ==
    (rt.op \in {"name_from_str", "build", "read_name"}
     /\ rt.stage \in {"built", "done"} /\ rt.result = "Ok") =>
        NameWireLen(rt.vals) <= 255

\* Nothing in name.rs or in read_domain_name counts the bytes of a name:
\* each of the three ways yields a name of four labels of 63 bytes, 257
\* bytes on the wire.
LabLongParsed ==
    /\ rt.op = "name_from_str"
    /\ rt.stage = "done"
    /\ rt.result = "Ok"
    /\ NameWireLen(rt.vals) = 257

LabLongBuilt ==
    /\ rt.op = "build"
    /\ rt.stage = "built"
    /\ NameWireLen(rt.vals) = 257

LabLongRead ==
    /\ rt.op = "read_name"
    /\ rt.stage = "done"
    /\ rt.result = "Ok"
    /\ NameWireLen(rt.vals) = 257

(***************************************************************************)
(* C34: for every valid Label L, of any 1 to 63 bytes, parsing the string  *)
(* that Display gives for L yields a Label equal to L.                     *)
(***************************************************************************)
C34_LabelRoundtrip ==
    (rt.op = "display" /\ rt.stage = "done") =>
        rt.result = "Ok" /\ rt.vals = rt.input

\* The bytes that escape_ascii leaves as they are.
Plain(label) == \A i \in 1..Len(label) : escape_byte(label[i]) = <<label[i]>>

\* What holds: Display escapes and FromStr does not unescape, so the label
\* comes back exactly when none of its bytes is escaped.
LabRoundtripIffPlain ==
    (rt.op = "display" /\ rt.stage = "done") =>
        ((rt.result = "Ok" /\ rt.vals = rt.input) <=> Plain(rt.input))

\* The label of the one byte 0 is shown as \x00 and parsed as the label of
\* these four bytes.
LabParsedEscape ==
    /\ rt.op = "display"
    /\ rt.stage = "done"
    /\ rt.input = <<0>>
    /\ rt.bytes = <<92, 120, 48, 48>>
    /\ rt.result = "Ok"
    /\ rt.vals = <<92, 120, 48, 48>>

\* The label of 63 bytes 0 is shown as 252 bytes, which is no label.
LabParsedTooLong ==
    /\ rt.op = "display"
    /\ rt.stage = "done"
    /\ rt.input = Fill(MAX_LEN, 0)
    /\ Len(rt.bytes) = 4 * MAX_LEN
    /\ rt.result = "LabelTooLong"

\* read_domain_name returned a name after following a pointer.
LabReadThroughPointer ==
    /\ rt.op = "read_name"
    /\ rt.stage = "done"
    /\ rt.result = "Ok"
    /\ rt.st.ptrs # <<>>

(***************************************************************************)
(* C35: after read_domain_name succeeds on a name with a compression       *)
(* pointer, the reader's position is the offset just past the two bytes of *)
(* the first pointer followed, wherever the labels reached through         *)
(* pointers end.                                                           *)
(***************************************************************************)
C35_PosPastFirstPointer ==
    LabReadThroughPointer => rt.st.pos = rt.st.ptrs[1].at + 2

\* What holds: the position is the larger of the offset past the first
\* pointer and the offset past the terminator that ended the name; the
\* labels reached through a pointer start before the pointer but may run
\* over it.
LabPosIsMax ==
    LabReadThroughPointer =>
        rt.st.pos = Max(rt.st.ptrs[1].at + 2, rt.st.copy_pos)

\* The name ended past the first pointer, and the reader is there.
LabPosMoved ==
    /\ LabReadThroughPointer
    /\ rt.input = [buf |-> <<0, 1, 192, 1, 0, 0>>, pos |-> 2]
    /\ rt.vals = <<<<192>>, <<0>>>>
    /\ rt.st.ptrs[1].at = 2
    /\ rt.st.pos = 6

(***************************************************************************)
(* Specification SpecTxt: TXT::decode on the RDATA of a record inside a    *)
(* message.  The message is pre \o rdata \o next: what precedes the RDATA, *)
(* the RDATA, and the bytes of the record that follows.  The reader stands *)
(* at the start of the RDATA; read_resource_record splits the RDATA off    *)
(* and as_enum decodes the split-off reader.  rt holds the input, the      *)
(* stage ("given", "split", "decoded"), the split-off reader r, the        *)
(* position of the message reader after the split, and the cursor c of the *)
(* decode.                                                                 *)
(***************************************************************************)
MaxRdata == 4

\* Length bytes 0, 1 and 2, and a letter.
TxtBytes == {0, 1, 2, 97}

TxtInputs ==
    {[pre |-> p, rdata |-> d, next |-> n] :
        p \in {<<>>, <<1, 98>>}, d \in SeqsUpTo(TxtBytes, MaxRdata),
        n \in {<<>>, <<99, 99>>}}

InitTxt ==
    /\ rd = NoRd
    /\ dec = NoDec
    /\ enc = NoEnc
    /\ hdr = NoHdr
    /\ adv = NoAdv
    /\ res = NoRes
    /\ disc = NoDisc
    /\ \E i \in TxtInputs :
         rt = [op |-> "txt", input |-> i, stage |-> "given",
               r |-> Reader_new(<<>>), pos |-> 0, c |-> Cur(Reader_new(<<>>))]

\* let rdata = self.split_off(rdlength)
TxtSplitOff ==
    /\ rt.op = "txt"
    /\ rt.stage = "given"
    /\ LET Split(o) == [rt EXCEPT !.stage = "split", !.r = o.val, !.pos = o.pos]
       IN  rt' = Split(split_off([full_buf |-> rt.input.pre \o rt.input.rdata
                                               \o rt.input.next,
                                  pos |-> Len(rt.input.pre)],
                                 Len(rt.input.rdata)))
    /\ UNCHANGED <<rd, dec, enc, hdr, adv, res, disc>>

\* TXT::decode(&mut Decoder { r: rdata })
TxtDecode ==
    /\ rt.op = "txt"
    /\ rt.stage = "split"
    /\ rt' = [rt EXCEPT !.stage = "decoded", !.c = TXT_decode(Cur(rt.r))]
    /\ UNCHANGED <<rd, dec, enc, hdr, adv, res, disc>>

NextTxt == TxtSplitOff \/ TxtDecode

SpecTxt == InitTxt /\ [][NextTxt]_vars

\* The character-strings that tile the bytes d: a length byte and that many
\* bytes each, up to the end of d.
RECURSIVE Tiles(_)
Tiles(d) ==
    IF d = <<>> THEN [ok |-> TRUE, entries |-> <<>>]
    ELSE IF d[1] > Len(d) - 1 THEN [ok |-> FALSE, entries |-> <<>>]
    ELSE LET Rest(t) ==
                 [ok |-> t.ok,
                  entries |-> IF t.ok THEN <<SubSeq(d, 2, 1 + d[1])>> \o t.entries
                              ELSE <<>>]
         IN  Rest(Tiles(SubSeq(d, 2 + d[1], Len(d))))

(***************************************************************************)
(* C36: decoding a TXT record consumes exactly its RDATA: it succeeds,     *)
(* with the character-strings in order, exactly when the strings tile the  *)
(* RDATA, an empty RDATA giving no entries; otherwise a length byte        *)
(* exceeds the bytes left and the decode fails with Eof; no byte outside   *)
(* the RDATA is read.                                                      *)
(***************************************************************************)
C36_TxtTilesRdata ==
    (rt.op = "txt" /\ rt.stage = "decoded") =>
        LET first == Len(rt.input.pre)
            end == Len(rt.input.pre) + Len(rt.input.rdata)
            tiles == Tiles(rt.input.rdata)
        IN  /\ rt.pos = end
            /\ rt.c.reads \subseteq first..(end - 1)
            /\ IF tiles.ok
               THEN /\ rt.c.result = "Ok"
                    /\ rt.c.vals = tiles.entries
                    /\ rt.c.pos = end
               ELSE rt.c.result = "Eof"

\* A decode of two strings, the second empty, before another record; and
\* the case of the claim's second half is TxtCutString.
C36_Witness ==
    /\ rt.op = "txt"
    /\ rt.stage = "decoded"
    /\ rt.input = [pre |-> <<1, 98>>, rdata |-> <<2, 97, 97, 0>>,
                   next |-> <<99, 99>>]
    /\ rt.c.result = "Ok"
    /\ rt.c.vals = <<<<97, 97>>, <<>>>>
    /\ rt.c.pos = 6

\* A length byte of 2 before the last byte of the RDATA, with two more
\* bytes behind the RDATA: Eof.
TxtCutString ==
    /\ rt.op = "txt"
    /\ rt.stage = "decoded"
    /\ rt.input.rdata = <<0, 2, 97>>
    /\ rt.input.next = <<99, 99>>
    /\ rt.c.result = "Eof"

(***************************************************************************)
(* C38: MessageEncoder never panics because of the size of its buffer:     *)
(* for every buffer length, those below the 12 bytes of the header         *)
(* included, new, question, the add_* operations, finish and the drop of   *)
(* the encoder complete, and finish returns Err(Truncated) when the buffer *)
(* cannot hold what was written.                                           *)
(***************************************************************************)
C38_NoPanicOnSize ==
    enc.section # "none" =>
        /\ enc.result # "panic"
        /\ (enc.result # "none" /\ enc.need > Len(enc.buf)) =>
              enc.result = "Truncated"

\* What holds: on a buffer of at least 12 bytes no operation panics; on a
\* shorter buffer new and the writes complete, and finish, the drop and
\* set_header panic in modify_header.
EncPanicIffNoHeader ==
    enc.section # "none" =>
        /\ Len(enc.buf) >= HEADER_SIZE => enc.result # "panic"
        /\ (Len(enc.buf) < HEADER_SIZE
            /\ enc.section \in {"panicked", "dropped"}) => enc.result = "panic"

\* finish on a buffer of 11 bytes panicked.
EncPanickedShort ==
    /\ enc.section = "panicked"
    /\ Len(enc.buf) = HEADER_SIZE - 1
    /\ enc.trunc

\* The service types of the instances added: service_domain of add_instance.
ServiceDomains(instances) ==
    {<<instances[i].in.instance.service_name,
       to_label(instances[i].in.instance.service_transport), Label_local>> :
        i \in 1..Len(instances)}

\* A response to the one question PTR _services._dns-sd._udp.local.
AdvAnsweredServices ==
    /\ AdvHandled
    /\ adv.last.result.out = "Some"
    /\ adv.last.packet.qs = <<Q(discovery_domain, Type_PTR, QClass_ANY)>>

(***************************************************************************)
(* C39: a response never holds the same record twice for one question:     *)
(* after any add_instance calls, several instances of one service type     *)
(* included, the question PTR _services._dns-sd._udp.local is answered     *)
(* with exactly one PTR record for each distinct service type.             *)
(***************************************************************************)
C39_OnePtrPerServiceType ==
    AdvAnsweredServices =>
        LET Once(answers) ==
                /\ \A i, j \in 1..Len(answers) :
                      answers[i] = answers[j] => i = j
                /\ Len(answers) = Cardinality(ServiceDomains(adv.instances))
                /\ {answers[i].fields[1] : i \in 1..Len(answers)} =
                      ServiceDomains(adv.instances)
        IN  Once(ResponseAnswers(adv.last.result.resp).answers)

\* What holds: one PTR record for each add_instance call, in the order of
\* the calls.
AdvPtrPerInstance ==
    AdvAnsweredServices =>
        LET PerCall(answers) ==
                /\ Len(answers) = Len(adv.instances)
                /\ \A i \in 1..Len(answers) :
                      /\ answers[i].type_ = Type_PTR
                      /\ {answers[i].fields[1]} =
                            ServiceDomains(<<adv.instances[i]>>)
        IN  PerCall(ResponseAnswers(adv.last.result.resp).answers)

\* Two instances of _svc._tcp were added and the response holds the record
\* PTR _svc._tcp.local twice.
AdvSamePtrTwice ==
    /\ AdvAnsweredServices
    /\ Len(adv.instances) = 2
    /\ adv.instances[1].in.instance.instance_name = Label_My
    /\ adv.instances[2].in.instance.instance_name = Label_x
    /\ HeaderOf(adv.last.result.resp).ancount = 2
    /\ LET Twice(answers) ==
               /\ answers[1] = answers[2]
               /\ answers[1].fields = <<<<Label_svc, Label_tcp, Label_local>>>>
       IN  Twice(ResponseAnswers(adv.last.result.resp).answers)

\* A call that has got past encode_query.
DiscStarted == disc.state \notin {"none", "idle"} /\ disc.data # <<>>

\* The supported answers of the responses received, by the construction
\* of the datagrams, in wire order: type and fields of each.
RECURSIVE AnswerRecords(_)
AnswerRecords(rrs) ==
    IF rrs = <<>> THEN <<>>
    ELSE <<[type_ |-> Head(rrs).rdata.type_,
            fields |-> RecordFields(Head(rrs).rdata)]>>
         \o AnswerRecords(Tail(rrs))

IsPrefix(s, t) == Len(s) <= Len(t) /\ s = SubSeq(t, 1, Len(s))

(***************************************************************************)
(* C37: the closure of the operation is called only for the supported      *)
(* records of the Answer sections of the messages with QR = 1 received, in *)
(* wire order; queries, records of the Authority and Additional sections,  *)
(* records of unsupported types and records whose data do not decode cause *)
(* no call; and a malformed datagram does not end the receive loop.        *)
(***************************************************************************)
C37_AnswersOnlyInOrder ==
    DiscStarted =>
        /\ IsPrefix(disc.st.got, AnswerRecords(AnswersIn(disc.log)))
        /\ disc.log # <<>> => disc.state # "panicked"

\* What holds: the records passed on are the supported answers of the
\* responses, in wire order, all of them unless the closure returned Break
\* (the call then ends); a datagram that is cut short, no message or a
\* query adds none and the loop goes on, except that the datagram that ends
\* inside a pointer panics the call (the unwrap of C3).
DiscAnswersDelivered ==
    DiscStarted =>
        /\ IsPrefix(disc.st.got, AnswerRecords(AnswersIn(disc.log)))
        /\ ~disc.brk => disc.st.got = AnswerRecords(AnswersIn(disc.log))
        /\ (disc.log # <<>> /\ disc.state = "panicked") =>
              disc.log[Len(disc.log)].dg = DiscCutPointer

\* After any other datagram, unless the closure returned Break or the
\* deadline has passed, the call is at recv_from again.
DiscLoopGoesOn ==
    [][(/\ disc.state = "recv"
        /\ Len(disc'.log) = Len(disc.log) + 1
        /\ disc'.log[Len(disc'.log)].dg # DiscCutPointer
        /\ ~disc'.brk
        /\ disc'.clock < DiscoveryTimeout) => disc'.state = "recv"]_vars

\* The response with records in all sections was received: its three
\* answers were passed on, and nothing else.
DiscPassedOwn ==
    /\ DiscStarted
    /\ disc.call.op = "discover_instances"
    /\ Len(disc.log) = 1
    /\ disc.log[1].dg = DiscOwn
    /\ Len(disc.st.got) = 3
    /\ disc.state = "recv"

\* The datagram that ends inside a pointer ended the call with a panic.
DiscPanickedOnDatagram ==
    /\ DiscStarted
    /\ disc.state = "panicked"
    /\ Len(disc.log) = 2
    /\ disc.log[2].dg = DiscCutPointer

\* The answers in the log that belong to the query of the call: answers
\* of responses that carry the ID of the query and whose owner is the
\* domain that was asked for.
RECURSIVE SelectOwn(_, _)
SelectOwn(rrs, domain) ==
    IF rrs = <<>> THEN <<>>
    ELSE (IF Head(rrs).name = domain THEN <<Head(rrs)>> ELSE <<>>)
         \o SelectOwn(Tail(rrs), domain)

RECURSIVE OwnAnswers(_, _)
OwnAnswers(log, domain) ==
    IF log = <<>> THEN <<>>
    ELSE (IF IsResponse(Head(log).dg) /\ Head(log).dg.h.id = QUERY_ID
          THEN SelectOwn(Head(log).dg.rrs, domain) ELSE <<>>)
         \o OwnAnswers(Tail(log), domain)

DiscOwnAnswers == OwnAnswers(disc.log, query_domain(disc.call, disc.domain))

(***************************************************************************)
(* C40: the closure is called only for answers that belong to the query    *)
(* sent: an answer with another owner name than the domain asked for, or   *)
(* in a response with another message ID, causes no call and does not      *)
(* enter the result of the operation.                                      *)
(***************************************************************************)
C40_OnlyOwnAnswers ==
    DiscStarted =>
        /\ IsPrefix(disc.st.got, AnswerRecords(DiscOwnAnswers))
        /\ \A k \in 1..Len(disc.st.calls) :
              \E j \in 1..Len(DiscOwnAnswers) :
                 /\ DiscOwnAnswers[j].rdata.type_ = Type_PTR
                 /\ disc.st.calls[k] \in
                        Named(disc.call.op, DiscOwnAnswers[j].rdata.ptrdname)
        /\ (disc.state = "returned" /\ disc.val.some) =>
              \E j \in 1..Len(DiscOwnAnswers) :
                 /\ DiscOwnAnswers[j].rdata.type_ = Type_SRV
                 /\ ReturnedDetails(DiscOwnAnswers[j].rdata)

\* The closure was called for an answer whose owner is not the domain
\* asked for, in a response whose ID is not that of the query.
DiscForeignAnswerPassed ==
    /\ DiscStarted
    /\ Len(disc.log) = 1
    /\ IsResponse(disc.log[1].dg)
    /\ disc.log[1].dg.h.id # QUERY_ID
    /\ disc.st.got # <<>>
    /\ DiscOwnAnswers = <<>>

\* The result of discover_instances holds an instance named by a PTR
\* answer with another owner.
DiscForeignInResult ==
    /\ DiscStarted
    /\ disc.call.op = "discover_instances"
    /\ disc.st.calls # <<>>
    /\ DiscOwnAnswers = <<>>

====
